---- MODULE Spec2Model ----
(***************************************************************************)
(* Job orchestration and drum detection of the drum-notation backend.      *)
(*                                                                         *)
(* The processing_jobs table, the JobService request handlers              *)
(* (app/modules/jobs/service.py) and the JobProcessor poll loop            *)
(* (app/modules/jobs/worker.py).  Every database statement of the code is  *)
(* one step: the request handlers and the poll loop are coroutines of one  *)
(* event loop, so they interleave at each await, that is between the       *)
(* statements and never inside one.                                        *)
(*                                                                         *)
(* Not modelled: cleanup_old_jobs (the only writer of deleted_at), so the  *)
(* deleted_at IS NULL filters of the queries select every row; requests    *)
(* for a video or job that does not exist or is not the caller's (they     *)
(* return 404 or 403 before anything is read of the job); failures of the  *)
(* database itself.                                                        *)
(*                                                                         *)
(* The onset merge and the event classification of DrumDetector            *)
(* (app/modules/audio_processing/detection.py) are functions of their      *)
(* inputs; each has a specification of its own (SpecDetectOnsets,          *)
(* SpecClassifyDrumEvents) whose initial states draw the inputs.  The job   *)
(* specifications leave the detector idle and the detector specifications  *)
(* leave the job table empty.                                              *)
(***************************************************************************)
EXTENDS Integers, Sequences, FiniteSets, TLC

\* ------------------------------------------------------------------ bounds
\* Rows the processing_jobs table may hold.
MaxJobs == 3
\* Videos; every request is made for an existing video by its owner.
NumVideos == 1

Videos == 1..NumVideos

\* --------------------------------------------------------------- constants
JobTypes == {"audio_extraction", "audio_analysis", "drum_detection"}

JobStatus == {"pending", "running", "completed", "failed"}

\* A NULL column / Python None.
NoneVal == "None"

\* A timestamp column that has been written (datetime.utcnow()).
Stamp == "utcnow"

CancelMessage == "Job cancelled by user"

\* JobProcessor.max_retries
max_retries == 3

\* The local current_retries of _handle_job_error ("TODO: Track this in the database").
current_retries == 0

VARIABLES
    jobs,     \* the processing_jobs table: a sequence of rows, the index is the id
    wpc,      \* where the poll loop is: "sleep", "dispatch", "handler", "reraise"
    queue,    \* pending_jobs of the running poll cycle, the jobs not yet finished
    step,     \* progress reports the running stage handler has made
    exc,      \* the message of the exception propagating out of _process_job
    raised,   \* jobs whose stage handler raised since they were created or retried
    req,      \* the request a JobService handler has validated and not yet written
    resp      \* the response returned by the step that led to this state, if any

\* One run of DrumDetector, outside the job specifications.
VARIABLES
    audio_pc,       \* "idle", or the step of the detector that is next or done
    onset_frames,   \* the frames the three onset estimators returned
    unique_onsets,  \* the onset times _detect_onsets returned
    onset_index,    \* onsets _classify_drum_events has gone through
    classified,     \* what _classify_single_event returned for the last of them
    drum_events     \* the events _classify_drum_events has appended

\* One call of _post_process_events on drum_events, and one more on its result.
VARIABLES
    filtered_events,    \* what _post_process_events returned
    refiltered_events   \* what it returned when given filtered_events

\* _extract_onset_features and the zip of _classify_drum_events.
VARIABLES
    y_len,           \* len(y), the samples of the audio buffer
    extracted_features,  \* features: the dictionaries _extract_onset_features appended
    extract_index,   \* onsets _extract_onset_features has gone through
    feature_onsets,  \* for each dictionary, the onset whose window it was taken from
    event_onsets     \* for each of drum_events, the onset whose window gave its features

\* The tasks start_job_processor created and the flag of the JobProcessor they share.
VARIABLES
    is_running,      \* JobProcessor.is_running
    tasks            \* for each task running JobProcessor.start, where it is

\* One separation run of DrumSourceSeparator and what is made of its result.
VARIABLES
    sep_pc,             \* "idle", or the step of the run that is next or done
    component_labels,   \* the label _classify_separated_source gave each NMF component
    separated_sources,  \* the map from source name to waveform
    separated_paths,    \* what separate_drum_sources returned
    stem_paths,         \* what create_drum_stems returned
    original,           \* the mixed audio given to get_separation_quality_metrics
    metrics             \* what get_separation_quality_metrics returned

jobVars == <<jobs, wpc, queue, step, exc, raised, req, resp>>

postVars == <<filtered_events, refiltered_events>>

featVars == <<y_len, extracted_features, extract_index, feature_onsets, event_onsets>>

loopVars == <<is_running, tasks>>

sepVars == <<sep_pc, component_labels, separated_sources, separated_paths, stem_paths,
             original, metrics>>

\* The variables of the parts of the audio engine other than onset detection
\* and classification, and of the start and stop of the job processor.
engineVars == <<postVars, featVars, loopVars, sepVars>>

audioVars == <<audio_pc, onset_frames, unique_onsets, onset_index, classified, drum_events,
               engineVars>>

vars == <<jobs, wpc, queue, step, exc, raised, req, resp, audioVars>>

\* No frames from any estimator.
NoFrames == [flux |-> {}, energy |-> {}, complex |-> {}]

\* Nothing classified yet.
NoClassification ==
    [drum_type |-> NoneVal, confidence |-> [num |-> 0, den |-> 1], velocity |-> 0]

\* _post_process_events has not been called.
PostIdle ==
    /\ filtered_events = <<>>
    /\ refiltered_events = <<>>

\* _extract_onset_features has not been called.
FeatIdle ==
    /\ y_len = 0
    /\ extracted_features = <<>>
    /\ extract_index = 0
    /\ feature_onsets = <<>>
    /\ event_onsets = <<>>

\* start_job_processor has not been called.
LoopIdle ==
    /\ is_running = FALSE
    /\ tasks = <<>>

\* No separation has been run.
SepIdle ==
    /\ sep_pc = "idle"
    /\ component_labels = <<>>
    /\ separated_sources = <<>>
    /\ separated_paths = <<>>
    /\ stem_paths = <<>>
    /\ original = <<>>
    /\ metrics = <<>>

\* No other part of the audio engine has been run, and the job processor has
\* not been started.
EngineIdle == PostIdle /\ FeatIdle /\ LoopIdle /\ SepIdle

\* The detector has not been run.
AudioIdle ==
    /\ audio_pc = "idle"
    /\ onset_frames = NoFrames
    /\ unique_onsets = <<>>
    /\ onset_index = 0
    /\ classified = NoClassification
    /\ drum_events = <<>>
    /\ EngineIdle

JobIds == 1..Len(jobs)

\* A request or a response: the operation, its arguments (0 and NoneVal where the
\* operation has none) and, for a response, the HTTP status code.
Request(op, video_id, job_type, job_id) ==
    [op |-> op, video_id |-> video_id, job_type |-> job_type, job_id |-> job_id]

Response(r, code) ==
    [op |-> r.op, video_id |-> r.video_id, job_type |-> r.job_type,
     job_id |-> r.job_id, code |-> code]

NoReq == Request(NoneVal, 0, NoneVal, 0)

NoResp == Response(NoReq, 0)

\* ---------------------------------------------------------------- the rows
\* ProcessingJob(video_id, job_type, status="pending", progress=0.0); created_at
\* defaults to utcnow(), which grows with every insert.
NewJob(video_id, job_type, created_at) ==
    [ video_id      |-> video_id,
      job_type      |-> job_type,
      status        |-> "pending",
      progress      |-> 0,
      error_message |-> NoneVal,
      started_at    |-> NoneVal,
      finished_at   |-> NoneVal,
      created_at    |-> created_at ]

\* .values(**update_data): the columns named in update_data are overwritten,
\* the others are left as they are.
Values(row, update_data) ==
    [c \in DOMAIN row |-> IF c \in DOMAIN update_data THEN update_data[c] ELSE row[c]]

\* _update_job_status(db, job_id, status, **given): update_data is the status plus
\* the keyword arguments given; UPDATE ... WHERE id = job_id, whatever the row's
\* current status is.
UpdateJobStatus(js, job_id, status, given) ==
    LET update_data == [c \in {"status"} \cup DOMAIN given |->
                            IF c = "status" THEN status ELSE given[c]]
    IN  [js EXCEPT ![job_id] = Values(@, update_data)]

\* _update_job_progress: the progress is written together with status "running".
UpdateJobProgress(js, job_id, progress) ==
    UpdateJobStatus(js, job_id, "running", [progress |-> progress])

\* _handle_job_error: with current_retries fixed at 0 the job is always put back
\* to pending with progress 0; the branch that marks it failed is never taken.
HandleJobError(js, job_id, error_message) ==
    IF current_retries < max_retries
    THEN UpdateJobStatus(js, job_id, "pending", [progress |-> 0])
    ELSE [UpdateJobStatus(js, job_id, "failed", [finished_at |-> Stamp])
            EXCEPT ![job_id] = Values(@, [error_message |-> error_message])]

\* The handlers as they would be if _process_drum_detection reported 80 before 40.
ProgressReportsOutOfOrder(job_type) ==
    CASE job_type = "audio_extraction" -> <<10, 20, 80, 100>>
      [] job_type = "audio_analysis"   -> <<25, 50, 75, 100>>
      [] job_type = "drum_detection"   -> <<20, 80, 40, 100>>

\* The progress a stage handler reports, in order (_process_audio_extraction,
\* _process_audio_analysis, _process_drum_detection).
ProgressReports(job_type) ==
    CASE job_type = "audio_extraction" -> <<10, 20, 80, 100>>
      [] job_type = "audio_analysis"   -> <<25, 50, 75, 100>>
      [] job_type = "drum_detection"   -> <<20, 40, 80, 100>>

\* What a stage handler can raise once it has made n progress reports:
\* audio extraction raises when the video is not found (after the first report),
\* when the extraction fails (after the second) and when the extracted file fails
\* validation (after the third); the two placeholder handlers only sleep.
HandlerErrors(job_type, n) ==
    IF job_type # "audio_extraction" THEN {}
    ELSE CASE n = 1 -> {"Video not found"}
           [] n = 2 -> {"Audio extraction failed"}
           [] n = 3 -> {"Extracted audio file failed validation"}
           [] OTHER -> {}

\* The select as it would be with ORDER BY created_at DESC.
RECURSIVE OrderByCreatedAtDesc(_, _)
OrderByCreatedAtDesc(js, ids) ==
    IF ids = {} THEN <<>>
    ELSE LET first == CHOOSE i \in ids :
                        \A k \in ids : js[i].created_at >= js[k].created_at
         IN  <<first>> \o OrderByCreatedAtDesc(js, ids \ {first})

\* _get_pending_jobs: the pending rows, ordered by created_at.
RECURSIVE OrderByCreatedAt(_, _)
OrderByCreatedAt(js, ids) ==
    IF ids = {} THEN <<>>
    ELSE LET first == CHOOSE i \in ids :
                        \A k \in ids : js[i].created_at <= js[k].created_at
         IN  <<first>> \o OrderByCreatedAt(js, ids \ {first})

GetPendingJobs(js) ==
    OrderByCreatedAt(js, {i \in 1..Len(js) : js[i].status = "pending"})

\* ------------------------------------------------------ JobService queries
\* get_job_by_video_and_type: the rows of the video and type, newest first, read
\* with scalar_one_or_none(): no row gives None, one row gives the row, and more
\* than one row raises MultipleResultsFound.
GetJobByVideoAndType(js, video_id, job_type) ==
    LET rows == {i \in 1..Len(js) :
                    js[i].video_id = video_id /\ js[i].job_type = job_type}
    IN  IF rows = {} THEN [found |-> "none", job_id |-> 0]
        ELSE IF Cardinality(rows) = 1
             THEN [found |-> "one", job_id |-> CHOOSE i \in rows : TRUE]
             ELSE [found |-> "MultipleResultsFound", job_id |-> 0]

\* The validation of create_audio_extraction_job, as the HTTP status it ends with
\* (200: the job is created).
CreateAudioExtractionCheck(js, video_id) ==
    LET existing_job == GetJobByVideoAndType(js, video_id, "audio_extraction")
    IN  IF existing_job.found = "MultipleResultsFound" THEN 500
        ELSE IF existing_job.found = "one"
                /\ js[existing_job.job_id].status \in {"pending", "running"} THEN 400
        ELSE 200

\* The validation of create_audio_analysis_job.
CreateAudioAnalysisCheck(js, video_id) ==
    LET audio_job == GetJobByVideoAndType(js, video_id, "audio_extraction")
    IN  IF audio_job.found = "MultipleResultsFound" THEN 500
        ELSE IF audio_job.found = "none"
                \/ js[audio_job.job_id].status # "completed" THEN 400
        ELSE 200

\* create_drum_detection_job as it would be if it only looked for an
\* audio_extraction job and not at its status.
CreateDrumDetectionCheckAnyStatus(js, video_id) ==
    LET audio_job == GetJobByVideoAndType(js, video_id, "audio_extraction")
    IN  IF audio_job.found = "MultipleResultsFound" THEN 500
        ELSE IF audio_job.found = "none" THEN 400
        ELSE 200

\* The validation of create_drum_detection_job.
CreateDrumDetectionCheck(js, video_id) ==
    LET audio_job == GetJobByVideoAndType(js, video_id, "audio_extraction")
    IN  IF audio_job.found = "MultipleResultsFound" THEN 500
        ELSE IF audio_job.found = "none"
                \/ js[audio_job.job_id].status # "completed" THEN 400
        ELSE 200

\* router.create_job: the handler of the job type.
CreateJobCheck(js, video_id, job_type) ==
    CASE job_type = "audio_extraction" -> CreateAudioExtractionCheck(js, video_id)
      [] job_type = "audio_analysis"   -> CreateAudioAnalysisCheck(js, video_id)
      [] job_type = "drum_detection"   -> CreateDrumDetectionCheck(js, video_id)

\* The validation of JobService.cancel_job.
CancelJobCheck(js, job_id) ==
    IF js[job_id].status \notin {"pending", "running"} THEN 400
    ELSE 200

\* The validation of JobService.retry_job.
RetryJobCheck(js, job_id) ==
    IF js[job_id].status # "failed" THEN 400
    ELSE 200

\* The state after construction: an empty table, the poll loop before its first
\* select, the detector idle.
Init ==
    /\ jobs = <<>>
    /\ wpc = "sleep"
    /\ queue = <<>>
    /\ step = 0
    /\ exc = NoneVal
    /\ raised = {}
    /\ req = NoReq
    /\ resp = NoResp
    /\ AudioIdle


\* ------------------------------------------------- JobService request handlers
\* A handler reads and validates in one step and writes in a later one; what the
\* poll loop does in between is not seen by the handler.  One request is handled
\* at a time.

\* create_*_job up to the call of job_processor.create_job: a request that fails
\* the validation returns its error and writes nothing.
CreateJobBegin(video_id, job_type) ==
    LET r    == Request("create", video_id, job_type, 0)
        code == CreateJobCheck(jobs, video_id, job_type)
    IN  /\ req = NoReq
        /\ Len(jobs) < MaxJobs
        /\ IF code = 200
           THEN req' = r /\ resp' = NoResp
           ELSE resp' = Response(r, code) /\ UNCHANGED req
        /\ UNCHANGED <<jobs, wpc, queue, step, exc, raised, audioVars>>

\* JobProcessor.create_job: the new row is inserted, pending with progress 0.
CreateJobFinish ==
    /\ req.op = "create"
    /\ jobs' = Append(jobs, NewJob(req.video_id, req.job_type, Len(jobs) + 1))
    /\ resp' = Response(Request("create", req.video_id, req.job_type, Len(jobs) + 1), 200)
    /\ req' = NoReq
    /\ UNCHANGED <<wpc, queue, step, exc, raised, audioVars>>

\* JobService.cancel_job up to its UPDATE.
CancelJobBegin(job_id) ==
    LET r    == Request("cancel", 0, NoneVal, job_id)
        code == CancelJobCheck(jobs, job_id)
    IN  /\ req = NoReq
        /\ IF code = 200
           THEN req' = r /\ resp' = NoResp
           ELSE resp' = Response(r, code) /\ UNCHANGED req
        /\ UNCHANGED <<jobs, wpc, queue, step, exc, raised, audioVars>>

\* The UPDATE of JobService.cancel_job: WHERE id = job_id only.
CancelJobFinish ==
    /\ req.op = "cancel"
    /\ jobs' = [jobs EXCEPT ![req.job_id] =
                    Values(@, [status        |-> "failed",
                               error_message |-> CancelMessage,
                               finished_at   |-> Stamp])]
    /\ resp' = Response(req, 200)
    /\ req' = NoReq
    /\ UNCHANGED <<wpc, queue, step, exc, raised, audioVars>>

\* JobService.retry_job up to its UPDATE.
RetryJobBegin(job_id) ==
    LET r    == Request("retry", 0, NoneVal, job_id)
        code == RetryJobCheck(jobs, job_id)
    IN  /\ req = NoReq
        /\ IF code = 200
           THEN req' = r /\ resp' = NoResp
           ELSE resp' = Response(r, code) /\ UNCHANGED req
        /\ UNCHANGED <<jobs, wpc, queue, step, exc, raised, audioVars>>

\* The UPDATE of retry_job as it would be if it did not reset started_at.
RetryJobFinishKeepsStartedAt ==
    /\ req.op = "retry"
    /\ jobs' = [jobs EXCEPT ![req.job_id] =
                    Values(@, [status        |-> "pending",
                               progress      |-> 0,
                               error_message |-> NoneVal,
                               finished_at   |-> NoneVal])]
    /\ raised' = raised \ {req.job_id}
    /\ resp' = Response(req, 200)
    /\ req' = NoReq
    /\ UNCHANGED <<wpc, queue, step, exc, audioVars>>

\* The UPDATE of JobService.retry_job: WHERE id = job_id only.
RetryJobFinish ==
    /\ req.op = "retry"
    /\ jobs' = [jobs EXCEPT ![req.job_id] =
                    Values(@, [status        |-> "pending",
                               progress      |-> 0,
                               error_message |-> NoneVal,
                               started_at    |-> NoneVal,
                               finished_at   |-> NoneVal])]
    /\ raised' = raised \ {req.job_id}
    /\ resp' = Response(req, 200)
    /\ req' = NoReq
    /\ UNCHANGED <<wpc, queue, step, exc, audioVars>>

\* JobProcessor.cancel_job: UPDATE ... WHERE id = job_id AND status = 'pending',
\* then, when no row matched, the same for 'running'; no error_message is written.
\* It returns True when a row matched; when none did it returns False and has
\* changed nothing.
ProcessorCancelJob(job_id) ==
    /\ jobs[job_id].status \in {"pending", "running"}
    /\ jobs' = [jobs EXCEPT ![job_id] =
                    Values(@, [status |-> "failed", finished_at |-> Stamp])]
    /\ resp' = Response(Request("processor_cancel", 0, NoneVal, job_id), 200)
    /\ UNCHANGED <<wpc, queue, step, exc, raised, req, audioVars>>

\* ------------------------------------------------------- the poll loop
\* The job _process_job is working on.
Current == Head(queue)

\* The for loop of process_pending_jobs moves to the next job of its list, or
\* the cycle ends and the loop sleeps.
NextJob ==
    /\ queue' = Tail(queue)
    /\ wpc' = IF Tail(queue) = <<>> THEN "sleep" ELSE "dispatch"
    /\ step' = 0

\* process_pending_jobs: the pending jobs are selected once per cycle.
Poll ==
    /\ wpc = "sleep"
    /\ GetPendingJobs(jobs) # <<>>
    /\ queue' = GetPendingJobs(jobs)
    /\ wpc' = "dispatch"
    /\ resp' = NoResp
    /\ UNCHANGED <<jobs, step, exc, raised, req, audioVars>>

\* _process_job: the job is marked running, whatever became of it since the
\* cycle selected it.
MarkRunning ==
    /\ wpc = "dispatch"
    /\ jobs' = UpdateJobStatus(jobs, Current, "running", [started_at |-> Stamp])
    /\ wpc' = "handler"
    /\ step' = 0
    /\ resp' = NoResp
    /\ UNCHANGED <<queue, exc, raised, req, audioVars>>

\* The stage handler reports its next progress.
ReportProgress ==
    /\ wpc = "handler"
    /\ step < Len(ProgressReports(jobs[Current].job_type))
    /\ jobs' = UpdateJobProgress(jobs, Current,
                                 ProgressReports(jobs[Current].job_type)[step + 1])
    /\ step' = step + 1
    /\ resp' = NoResp
    /\ UNCHANGED <<wpc, queue, exc, raised, req, audioVars>>

\* The stage handler returned: _process_job marks the job completed.
MarkCompleted ==
    /\ wpc = "handler"
    /\ step = Len(ProgressReports(jobs[Current].job_type))
    /\ jobs' = UpdateJobStatus(jobs, Current, "completed",
                               [finished_at |-> Stamp, progress |-> 100])
    /\ NextJob
    /\ resp' = NoResp
    /\ UNCHANGED <<exc, raised, req, audioVars>>

\* The stage handler raises: the except clause of _process_job calls
\* _handle_job_error and raises the exception again.
HandlerRaises ==
    /\ wpc = "handler"
    /\ \E e \in HandlerErrors(jobs[Current].job_type, step) :
          /\ jobs' = HandleJobError(jobs, Current, e)
          /\ exc' = e
    /\ wpc' = "reraise"
    /\ raised' = raised \cup {Current}
    /\ resp' = NoResp
    /\ UNCHANGED <<queue, step, req, audioVars>>

\* process_pending_jobs as it would be if the handler's exception left the for
\* loop: the rest of the cycle's jobs is dropped.
HandlerReraisedLeavesLoop ==
    /\ wpc = "reraise"
    /\ jobs' = HandleJobError(jobs, Current, exc)
    /\ exc' = NoneVal
    /\ queue' = <<>>
    /\ wpc' = "sleep"
    /\ step' = 0
    /\ resp' = NoResp
    /\ UNCHANGED <<raised, req, audioVars>>

\* The except clause of process_pending_jobs calls _handle_job_error a second
\* time and the for loop goes on.
HandlerReraised ==
    /\ wpc = "reraise"
    /\ jobs' = HandleJobError(jobs, Current, exc)
    /\ exc' = NoneVal
    /\ NextJob
    /\ resp' = NoResp
    /\ UNCHANGED <<raised, req, audioVars>>

Next ==
    \/ \E v \in Videos, t \in JobTypes : CreateJobBegin(v, t)
    \/ CreateJobFinish
    \/ \E j \in JobIds : CancelJobBegin(j)
    \/ CancelJobFinish
    \/ \E j \in JobIds : RetryJobBegin(j)
    \/ RetryJobFinish
    \/ Poll
    \/ MarkRunning
    \/ ReportProgress
    \/ MarkCompleted
    \/ HandlerRaises
    \/ HandlerReraised

\* The program as it is deployed: the HTTP handlers of the job router and the
\* poll loop started at startup.
Spec == Init /\ [][Next]_vars

\* JobProcessor.cancel_job is public and has no caller in the repository: the
\* program with a caller of it added.
NextWithProcessorCancel ==
    \/ Next
    \/ \E j \in JobIds : ProcessorCancelJob(j)

SpecProcessorCancel == Init /\ [][NextWithProcessorCancel]_vars

\* ================================================================ properties
\* The jobs of a video and type that are pending or running.
ActiveJobs(js, video_id, job_type) ==
    {i \in 1..Len(js) : /\ js[i].video_id = video_id
                        /\ js[i].job_type = job_type
                        /\ js[i].status \in {"pending", "running"}}

\* The video has an audio_extraction job and the most recent one is completed.
DependencySatisfied(js, video_id) ==
    LET ex == {i \in 1..Len(js) : /\ js[i].video_id = video_id
                                  /\ js[i].job_type = "audio_extraction"}
    IN  /\ ex # {}
        /\ \E i \in ex : /\ \A k \in ex : js[k].created_at <= js[i].created_at
                         /\ js[i].status = "completed"

\* The step is the UPDATE of an explicit retry of job j.
IsRetryOf(j) == req.op = "retry" /\ req.job_id = j /\ req' = NoReq

\* The step is the UPDATE of an explicit cancel of job j, by either cancel_job.
IsCancelOf(j) ==
    \/ req.op = "cancel" /\ req.job_id = j /\ req' = NoReq
    \/ resp'.op = "processor_cancel" /\ resp'.job_id = j

\* The step is the poll loop marking job j running.
IsDispatchOf(j) ==
    wpc = "dispatch" /\ queue # <<>> /\ Head(queue) = j /\ wpc' = "handler"

\* The step is the poll loop marking job j completed after its handler returned.
IsCompletionOf(j) ==
    wpc = "handler" /\ queue # <<>> /\ Head(queue) = j /\ wpc' # "handler"
    /\ exc' = NoneVal /\ exc = NoneVal

\* The step is the handler of job j raising.
IsHandlerErrorOf(j) ==
    wpc = "handler" /\ queue # <<>> /\ Head(queue) = j /\ wpc' = "reraise"

\* The step ends the dispatch of a job whose handler raised.
IsEndOfFailedDispatch == wpc = "reraise" /\ wpc' # "reraise"

\* C1: in every reachable state each (video_id, job_type) pair has at most one
\* job whose status is pending or running.
C1_AtMostOneActiveJob ==
    \A v \in Videos, t \in JobTypes : Cardinality(ActiveJobs(jobs, v, t)) <= 1

\* C2: once a job is failed with the cancellation message, every step that is not
\* its explicit retry leaves it failed with that message: no progress report,
\* completion, failure or dispatch of the poll loop changes the record.
C2_CancelledStaysFailed ==
    [][\A j \in JobIds :
          (jobs[j].status = "failed" /\ jobs[j].error_message = CancelMessage)
          => \/ jobs'[j].status = "failed" /\ jobs'[j].error_message = CancelMessage
             \/ IsRetryOf(j)]_vars

\* C3: when a stage handler raised, the job ends that dispatch with status
\* failed, the exception message as its error_message and finished_at set.
C3_HandlerErrorMarksFailed ==
    [][IsEndOfFailedDispatch
         => /\ jobs'[Head(queue)].status = "failed"
            /\ jobs'[Head(queue)].error_message = exc
            /\ jobs'[Head(queue)].error_message # NoneVal
            /\ jobs'[Head(queue)].finished_at # NoneVal]_vars

\* C4: a job whose handler has raised and which has not been retried explicitly
\* since is not dispatched again by any later poll cycle.
C4_NoAutomaticRetry ==
    [][\A j \in raised : ~IsDispatchOf(j)]_vars

\* C5: every change of a job's status is pending -> running by dispatch,
\* running -> completed by handler success, running -> failed by a handler
\* exception or a cancel, pending -> failed by a cancel, or failed -> pending by
\* an explicit retry.
C5_OnlyLegalTransitions ==
    [][\A j \in JobIds :
          LET from == jobs[j].status
              to   == jobs'[j].status
          IN  \/ from = to
              \/ from = "pending" /\ to = "running" /\ IsDispatchOf(j)
              \/ from = "running" /\ to = "completed" /\ IsCompletionOf(j)
              \/ from = "running" /\ to = "failed"
                    /\ (IsCancelOf(j) \/ IsHandlerErrorOf(j) \/ IsEndOfFailedDispatch)
              \/ from = "pending" /\ to = "failed" /\ IsCancelOf(j)
              \/ from = "failed" /\ to = "pending" /\ IsRetryOf(j)]_vars

\* C6: a job is completed if and only if its progress is 100 and its finished_at
\* is set.
C6_CompletedIffFullProgress ==
    \A j \in JobIds :
        jobs[j].status = "completed"
            <=> (jobs[j].progress = 100 /\ jobs[j].finished_at # NoneVal)

\* C7: a job's error_message is set if and only if its status is failed.
C7_ErrorMessageIffFailed ==
    \A j \in JobIds :
        jobs[j].error_message # NoneVal <=> jobs[j].status = "failed"

\* C8: a create request, of any of the three job types, passes validation only
\* when no job of the same type for the same video is pending or running, and a
\* rejected request leaves the table as it was.
C8_DuplicateActiveJobRejected ==
    [][/\ (req = NoReq /\ req'.op = "create")
            => ActiveJobs(jobs, req'.video_id, req'.job_type) = {}
       /\ (resp'.op = "create" /\ resp'.code # 200) => jobs' = jobs]_vars

\* C9: a create request for audio_analysis or drum_detection passes validation
\* only when the video's most recent audio_extraction job is completed; a request
\* made when the video has no audio_extraction job, or when its most recent one
\* is pending, running or failed, returns an error and leaves the table as it
\* was; and a row of these types is inserted only for a validated request, the
\* dependency still holding.
C9_DependencyNotSatisfiedRejected ==
    [][/\ (req = NoReq /\ req'.op = "create"
              /\ req'.job_type \in {"audio_analysis", "drum_detection"})
            => DependencySatisfied(jobs, req'.video_id)
       /\ (resp'.op = "create" /\ resp'.code # 200)
            => jobs' = jobs /\ req' = req
       /\ (Len(jobs') > Len(jobs)
              /\ jobs'[Len(jobs')].job_type \in {"audio_analysis", "drum_detection"})
            => /\ req.op = "create"
               /\ req.job_type = jobs'[Len(jobs')].job_type
               /\ req.video_id = jobs'[Len(jobs')].video_id
               /\ DependencySatisfied(jobs, req.video_id)]_vars

\* C9 witness: a create request for audio_analysis or drum_detection has just
\* been rejected for a video whose most recent audio_extraction job exists and
\* is not completed.
C9_Witness ==
    /\ resp.op = "create"
    /\ resp.job_type \in {"audio_analysis", "drum_detection"}
    /\ resp.code = 400
    /\ \E i \in JobIds : /\ jobs[i].video_id = resp.video_id
                         /\ jobs[i].job_type = "audio_extraction"
                         /\ jobs[i].status = "failed"
    /\ ~DependencySatisfied(jobs, resp.video_id)

\* C10: whenever the most recent audio_extraction job of a video is completed, a
\* create request for audio_analysis is not rejected, however many
\* audio_extraction jobs the video has; and the job it adds is pending with
\* progress 0.
C10_AnalysisCreatedAfterExtraction ==
    /\ (resp.op = "create" /\ resp.job_type = "audio_analysis" /\ resp.code # 200)
            => ~DependencySatisfied(jobs, resp.video_id)
    /\ (resp.op = "create" /\ resp.code = 200)
            => /\ jobs[resp.job_id].status = "pending"
               /\ jobs[resp.job_id].progress = 0

\* C11: a cancel or retry that is rejected leaves every job record unchanged,
\* and the UPDATE of a cancel is applied only to a job that is pending or
\* running, the UPDATE of a retry only to a job that is failed: no step of the
\* poll loop between the validation and the UPDATE lets cancel turn a completed
\* job into failed or retry turn a completed or running job into pending.
C11_ControlOutsideSourceStatesRejected ==
    [][/\ (resp'.op \in {"cancel", "retry"} /\ resp'.code # 200) => jobs' = jobs
       /\ \A j \in JobIds :
            /\ (req.op = "cancel" /\ IsCancelOf(j))
                    => jobs[j].status \in {"pending", "running"}
            /\ IsRetryOf(j) => jobs[j].status = "failed"]_vars

\* C12: in the state right after the UPDATE of a successful cancel, by
\* JobService.cancel_job or by JobProcessor.cancel_job, the job is failed and
\* its error_message is the message of the user cancellation.
C12_CancelledJobFailedWithMessage ==
    (resp.op \in {"cancel", "processor_cancel"} /\ resp.code = 200)
        => /\ jobs[resp.job_id].status = "failed"
           /\ jobs[resp.job_id].error_message = CancelMessage

\* C13: the UPDATE of a retry on a failed job sets status to pending, progress
\* to 0 and error_message, started_at and finished_at to None, leaves video_id,
\* job_type and created_at of the job as they were, and changes no other job
\* and creates or removes none.
C13_RetryFrame ==
    [][\A j \in JobIds :
        (IsRetryOf(j) /\ jobs[j].status = "failed")
            => /\ jobs'[j].status = "pending"
               /\ jobs'[j].progress = 0
               /\ jobs'[j].error_message = NoneVal
               /\ jobs'[j].started_at = NoneVal
               /\ jobs'[j].finished_at = NoneVal
               /\ jobs'[j].video_id = jobs[j].video_id
               /\ jobs'[j].job_type = jobs[j].job_type
               /\ jobs'[j].created_at = jobs[j].created_at
               /\ Len(jobs') = Len(jobs)
               /\ \A k \in JobIds \ {j} : jobs'[k] = jobs[k]]_vars

\* C13 witness: a retry has just been applied while another job of the table
\* is completed; the retried job was dispatched before (it is in the poll
\* loop's hands), so its started_at and progress had been written.
C13_Witness ==
    /\ resp.op = "retry" /\ resp.code = 200
    /\ jobs[resp.job_id].status = "pending"
    /\ wpc = "handler" /\ Current = resp.job_id /\ step > 0
    /\ \E k \in JobIds \ {resp.job_id} : jobs[k].status = "completed"

\* The poll loop keeps running: `while self.is_running` takes its next step
\* whenever it has one (the select after the sleep, the UPDATEs of _process_job,
\* the handler's progress reports, the end of a failed dispatch). A handler is
\* not obliged to raise, and no request is obliged to arrive or to finish.
SpecRunningPollLoop ==
    /\ Spec
    /\ WF_vars(Poll)
    /\ WF_vars(MarkRunning)
    /\ WF_vars(ReportProgress)
    /\ WF_vars(MarkCompleted)
    /\ WF_vars(HandlerReraised)

\* Job j has a handler that raised since the job was created or last retried.
HandlerRaisedFor(j) == j \in raised

\* Job j has been cancelled (a cancel leaves it failed).
CancelledJob(j) == jobs[j].status = "failed"

\* C14: under a running poll loop every pending job is eventually completed
\* with progress 100 and finished_at set, unless its handler raises or it is
\* cancelled; and every step by which a job becomes running sets its started_at.
C14_PendingEventuallyCompleted ==
    /\ \A j \in 1..MaxJobs :
          (j \in JobIds /\ jobs[j].status = "pending")
              ~> (j \in JobIds /\ \/ /\ jobs[j].status = "completed"
                                     /\ jobs[j].progress = 100
                                     /\ jobs[j].finished_at # NoneVal
                                  \/ HandlerRaisedFor(j)
                                  \/ CancelledJob(j))
    /\ [][\A j \in JobIds :
            (jobs[j].status # "running" /\ jobs'[j].status = "running")
                => jobs'[j].started_at # NoneVal]_vars

\* C15: when a handler raises, the jobs selected after it in the same poll cycle
\* stay selected, and the step that ends the failed dispatch hands the loop to
\* the next of them (or, after the last, back to the sleep before the next
\* poll): the exception does not end the cycle or the loop.
C15_HandlerErrorDoesNotStopCycle ==
    [][/\ (\E j \in JobIds : IsHandlerErrorOf(j)) => queue' = queue
       /\ IsEndOfFailedDispatch
            => /\ queue' = Tail(queue)
               /\ wpc' = IF Tail(queue) = <<>> THEN "sleep" ELSE "dispatch"
               /\ \A k \in JobIds : k # Head(queue) => jobs'[k] = jobs[k]]_vars

\* C15 witness: the loop is about to dispatch a job of a cycle in which the
\* handler of an earlier job has raised and its failed dispatch has ended.
C15_Witness ==
    /\ wpc = "dispatch" /\ exc = NoneVal
    /\ \E j \in raised : /\ jobs[j].created_at < jobs[Current].created_at
                         /\ jobs[j].status = "pending"
                         /\ jobs[j].started_at # NoneVal

\* The jobs of a sequence of job ids.
Range(q) == {q[i] : i \in 1..Len(q)}

\* C16: a poll cycle selects exactly the jobs that are pending, in ascending
\* created_at; the job the loop marks running is the one with the earliest
\* created_at of those still waiting in the cycle; and a selected job leaves the
\* head of the cycle only when its handler has finished (returned or raised),
\* so the next one is marked running after that.
C16_DispatchInCreationOrder ==
    [][/\ (wpc = "sleep" /\ wpc' = "dispatch")
            => /\ Range(queue') = {i \in JobIds : jobs[i].status = "pending"}
               /\ \A a, b \in 1..Len(queue') :
                    a < b => jobs[queue'[a]].created_at < jobs[queue'[b]].created_at
       /\ \A j \in JobIds :
            IsDispatchOf(j)
                => \A k \in Range(Tail(queue)) :
                        jobs[j].created_at < jobs[k].created_at
       /\ (wpc # "sleep" /\ queue' # queue)
            => /\ queue' = Tail(queue)
               /\ \/ IsCompletionOf(Head(queue))
                  \/ IsEndOfFailedDispatch
       /\ (wpc' = "handler" /\ wpc # "handler") => wpc = "dispatch"]_vars

\* C16 witness: two jobs were pending when the cycle selected; the one created
\* earlier is running in its handler and the later one still waits, pending.
C16_Witness ==
    /\ wpc = "handler" /\ Len(queue) >= 2
    /\ jobs[queue[1]].status = "running"
    /\ jobs[queue[2]].status = "pending"
    /\ jobs[queue[2]].started_at = NoneVal
    /\ jobs[queue[1]].created_at < jobs[queue[2]].created_at

\* C17: a step that leaves a job running never lowers its progress, and the
\* progress of every job is always within 0..100.
C17_ProgressMonotoneWithinRun ==
    [][\A j \in JobIds :
        /\ jobs'[j].progress \in 0..100
        /\ (jobs[j].status = "running" /\ jobs'[j].status = "running")
                => jobs[j].progress <= jobs'[j].progress]_vars

\* C17 witness: the three handlers have each run, the third has written its
\* last progress report and its job is still running.
C17_Witness ==
    /\ wpc = "handler" /\ step = Len(ProgressReports("drum_detection"))
    /\ jobs[Current].job_type = "drum_detection"
    /\ jobs[Current].status = "running"
    /\ jobs[Current].progress = 100
    /\ \E e, a \in JobIds : /\ jobs[e].job_type = "audio_extraction"
                            /\ jobs[a].job_type = "audio_analysis"
                            /\ jobs[e].status = "completed"
                            /\ jobs[a].status = "completed"

\* ------------------------------------------------------- pipeline status
\* The 33.3 that get_processing_pipeline_status adds for a completed stage, in
\* tenths of a percent; overall_progress is kept in tenths throughout.
StageIncrement == 333

\* The 100.0 that it assigns when the three stages are completed, in tenths.
FullProgress == 1000

\* jobs_by_type[job_type] for the jobs of the video.
JobsByType(js, video_id, job_type) ==
    {i \in 1..Len(js) : js[i].video_id = video_id /\ js[i].job_type = job_type}

\* _get_stage_status: not_started without a job, else the status and progress
\* of the job with the greatest created_at.
GetStageStatus(js, ids) ==
    IF ids = {} THEN [status |-> "not_started", progress |-> 0, latest_job_id |-> 0]
    ELSE LET latest_job == CHOOSE i \in ids :
                                \A k \in ids : js[k].created_at <= js[i].created_at
         IN  [status |-> js[latest_job].status, progress |-> js[latest_job].progress,
              latest_job_id |-> latest_job]

\* get_processing_pipeline_status for a video of the caller.
GetProcessingPipelineStatus(js, video_id) ==
    LET stages == [t \in JobTypes |-> GetStageStatus(js, JobsByType(js, video_id, t))]
        extraction == stages["audio_extraction"].status
        analysis   == stages["audio_analysis"].status
        detection  == stages["drum_detection"].status
        overall_progress ==
            IF extraction = "completed"
            THEN IF analysis = "completed"
                 THEN IF detection = "completed"
                      THEN FullProgress
                      ELSE StageIncrement + StageIncrement
                 ELSE StageIncrement
            ELSE 0
        next_available_action ==
            IF extraction = "completed"
            THEN IF analysis = "completed"
                 THEN IF detection = "completed" THEN "notation_generation"
                      ELSE IF detection = "not_started" THEN "drum_detection"
                      ELSE NoneVal
                 ELSE IF analysis = "not_started" THEN "audio_analysis"
                 ELSE NoneVal
            ELSE IF extraction = "not_started" THEN "audio_extraction"
            ELSE NoneVal
    IN  [pipeline_stages |-> stages,
         overall_progress |-> overall_progress,
         next_available_action |-> next_available_action]

\* Three times the overall progress the claim describes, in tenths of a percent:
\* a stage whose latest job is completed counts its whole third, a stage whose
\* latest job is pending or running counts that job's progress scaled by a third.
ScaledStageSumTimes3(js, video_id) ==
    LET Latest(t) == GetStageStatus(js, JobsByType(js, video_id, t))
        Part(t) == IF Latest(t).status = "completed" THEN FullProgress
                   ELSE IF Latest(t).status \in {"pending", "running"}
                        THEN 10 * Latest(t).progress
                   ELSE 0
    IN  Part("audio_extraction") + Part("audio_analysis") + Part("drum_detection")

\* C18: for every video, each stage of pipeline_status carries the status of the
\* most recently created job of its type (not_started without one), and the
\* overall progress is, up to the rounding of a third to 33.3, the sum over the
\* stages of a third for a completed stage and of a third of the job's progress
\* for a stage in progress.
C18_PipelineOverallProgress ==
    \A v \in Videos :
        LET ps   == GetProcessingPipelineStatus(jobs, v)
            diff == 3 * ps.overall_progress - ScaledStageSumTimes3(jobs, v)
        IN  /\ \A t \in JobTypes :
                  LET ids == {i \in JobIds : jobs[i].video_id = v /\ jobs[i].job_type = t}
                  IN  IF ids = {} THEN ps.pipeline_stages[t].status = "not_started"
                      ELSE \E i \in ids :
                              /\ \A k \in ids : jobs[k].created_at <= jobs[i].created_at
                              /\ ps.pipeline_stages[t].status = jobs[i].status
            /\ diff <= 3 /\ -3 <= diff

\* ================================================================ detector
\* ---------------------------------------------------- detector bounds
\* The last frame an onset estimator may report (frames are 0..MaxFrame).
MaxFrame == 10
\* Onsets one estimator may report.
MaxOnsetsPerEstimator == 2

\* ------------------------------------------------- DrumDetectionConfig
hop_length == 512

sr == 44100

\* onset_min_distance = 0.05 seconds, in milliseconds.
onset_min_distance_ms == 50

\* Times are kept in samples: an onset time of t seconds is the integer t * sr.
\* librosa.frames_to_time(frames, sr, hop_length) is frames * hop_length / sr.
FramesToTime(frame) == frame * hop_length

\* (later - earlier) >= self.config.onset_min_distance, on times in samples.
AtLeastMinDistance(earlier, later) ==
    (later - earlier) * 1000 >= onset_min_distance_ms * sr

Frames == 0..MaxFrame

\* What one estimator may return: librosa.onset.onset_detect picks peaks, an
\* increasing array of distinct frames.
EstimatorOutputs == {S \in SUBSET Frames : Cardinality(S) <= MaxOnsetsPerEstimator}

\* An estimator's array: its frames in increasing order.
RECURSIVE Ascending(_)
Ascending(S) ==
    IF S = {} THEN <<>>
    ELSE LET least == CHOOSE x \in S : \A y \in S : x <= y
         IN  <<least>> \o Ascending(S \ {least})

\* np.concatenate([onset_frames_flux, onset_frames_energy, onset_frames_complex])
Concatenate(frames) ==
    Ascending(frames.flux) \o Ascending(frames.energy) \o Ascending(frames.complex)

\* np.sort: the same values, duplicates included, in non-decreasing order.
RECURSIVE Insert(_, _)
Insert(x, sorted) ==
    IF sorted = <<>> THEN <<x>>
    ELSE IF x <= Head(sorted) THEN <<x>> \o sorted
    ELSE <<Head(sorted)>> \o Insert(x, Tail(sorted))

RECURSIVE Sort(_)
Sort(a) == IF a = <<>> THEN <<>> ELSE Insert(Head(a), Sort(Tail(a)))

\* The loop of _detect_onsets as it would be if it compared each candidate with
\* the candidate before it instead of the onset kept last.
RECURSIVE CloseToPreviousDropped(_, _, _)
CloseToPreviousDropped(unique, previous, rest) ==
    IF rest = <<>> THEN unique
    ELSE LET onset_time == Head(rest)
         IN  IF previous = <<>> \/ AtLeastMinDistance(previous[1], onset_time)
             THEN CloseToPreviousDropped(Append(unique, onset_time), <<onset_time>>, Tail(rest))
             ELSE CloseToPreviousDropped(unique, <<onset_time>>, Tail(rest))

RemoveOnsetsCloseToPrevious(all_onset_times_sorted) ==
    CloseToPreviousDropped(<<>>, <<>>, all_onset_times_sorted)

\* The loop of _detect_onsets: a time is appended when unique_onsets is empty
\* or the time is at least onset_min_distance after unique_onsets[-1].
RECURSIVE UniqueOnsetsLoop(_, _)
UniqueOnsetsLoop(unique, rest) ==
    IF rest = <<>> THEN unique
    ELSE LET onset_time == Head(rest)
         IN  IF unique = <<>> \/ AtLeastMinDistance(unique[Len(unique)], onset_time)
             THEN UniqueOnsetsLoop(Append(unique, onset_time), Tail(rest))
             ELSE UniqueOnsetsLoop(unique, Tail(rest))

RemoveCloseOnsets(all_onset_times_sorted) ==
    UniqueOnsetsLoop(<<>>, all_onset_times_sorted)

\* _detect_onsets after the three estimators: concatenate, convert to times,
\* sort, remove the onsets that are too close together.
CombineOnsets(frames) ==
    LET all_onset_frames == Concatenate(frames)
        all_onset_times  == [i \in 1..Len(all_onset_frames) |->
                                FramesToTime(all_onset_frames[i])]
    IN  RemoveCloseOnsets(Sort(all_onset_times))

\* The job table untouched and the poll loop before its first select.
JobsIdle ==
    /\ jobs = <<>>
    /\ wpc = "sleep"
    /\ queue = <<>>
    /\ step = 0
    /\ exc = NoneVal
    /\ raised = {}
    /\ req = NoReq
    /\ resp = NoResp

\* The three estimators have returned, each any array it may return.
InitDetectOnsets ==
    /\ JobsIdle
    /\ audio_pc = "estimated"
    /\ onset_frames \in [flux : EstimatorOutputs, energy : EstimatorOutputs,
                         complex : EstimatorOutputs]
    /\ unique_onsets = <<>>
    /\ onset_index = 0
    /\ classified = NoClassification
    /\ drum_events = <<>>
    /\ EngineIdle

\* The rest of _detect_onsets.
DetectOnsets ==
    /\ audio_pc = "estimated"
    /\ unique_onsets' = CombineOnsets(onset_frames)
    /\ audio_pc' = "onsets"
    /\ UNCHANGED <<onset_frames, onset_index, classified, drum_events, engineVars,
                   jobVars>>

SpecDetectOnsets == InitDetectOnsets /\ [][DetectOnsets]_vars

\* The candidate times of the run: every time some estimator reported.
CandidateTimes ==
    {FramesToTime(f) : f \in onset_frames.flux \cup onset_frames.energy
                                \cup onset_frames.complex}

\* The onset times the run kept.
KeptOnsets == Range(unique_onsets)

\* The merged list is ascending with consecutive onsets at least
\* onset_min_distance apart.
OnsetsSortedAndSpaced ==
    \A i \in 1..(Len(unique_onsets) - 1) :
        /\ unique_onsets[i] < unique_onsets[i + 1]
        /\ AtLeastMinDistance(unique_onsets[i], unique_onsets[i + 1])

\* The earliest candidate is kept, as the first onset.
EarliestCandidateKept ==
    CandidateTimes # {}
        => /\ unique_onsets # <<>>
           /\ unique_onsets[1] \in CandidateTimes
           /\ \A c \in CandidateTimes : unique_onsets[1] <= c

\* C19 as stated: the merged onsets are ascending and at least
\* onset_min_distance apart, the earliest candidate is kept, and of any two
\* candidates closer than onset_min_distance only the earlier is kept: the
\* later one is not.
C19_OnlyEarliestOfCloseCandidatesKept ==
    audio_pc = "onsets"
        => /\ OnsetsSortedAndSpaced
           /\ EarliestCandidateKept
           /\ \A a, b \in CandidateTimes :
                (a < b /\ ~AtLeastMinDistance(a, b)) => b \notin KeptOnsets

\* C19 amended: the merged onsets are candidates, ascending and at least
\* onset_min_distance apart, the earliest candidate is kept, and a candidate
\* is dropped only when it lies less than onset_min_distance after a kept
\* onset.
C19_MergedOnsetsSpaced ==
    audio_pc = "onsets"
        => /\ OnsetsSortedAndSpaced
           /\ EarliestCandidateKept
           /\ KeptOnsets \subseteq CandidateTimes
           /\ \A c \in CandidateTimes \ KeptOnsets :
                \E k \in KeptOnsets : k < c /\ ~AtLeastMinDistance(k, c)

\* C19 witness: the merge has run on candidates from the three estimators and
\* kept an onset although a dropped candidate lies less than
\* onset_min_distance before it.
C19_Witness ==
    /\ audio_pc = "onsets"
    /\ onset_frames.flux # {} /\ onset_frames.energy # {} /\ onset_frames.complex # {}
    /\ \E c \in CandidateTimes \ KeptOnsets, k \in KeptOnsets :
            c < k /\ ~AtLeastMinDistance(c, k)

\* ------------------------------------------------------- classification
\* The greatest band energy of a feature dictionary (energies are 0..MaxEnergy).
MaxEnergy == 1

\* The keys of DrumDetectionConfig.frequency_bands, in their order.
DrumTypes == <<"kick", "snare", "hihat", "crash", "tom_low", "tom_mid", "tom_high">>

\* A fraction num/den with den > 0; confidences are kept as exact fractions.
Fraction(num, den) == [num |-> num, den |-> den]

\* a >= b on fractions.
AtLeast(a, b) == a.num * b.den >= b.num * a.den

\* classification_threshold = 0.6
classification_threshold == Fraction(6, 10)

\* Feature values on each side of every threshold _classify_single_event
\* compares with: spectral_centroid and spectral_rolloff in Hz,
\* zero_crossing_rate and rms_energy in hundredths.
SpectralCentroids == {100, 175, 300, 1000, 6000}

ZeroCrossingRates == {5, 12, 20}

SpectralRolloffs == {2000, 9000}

RmsEnergies == {0, 5, 10, 20}

\* The feature dictionaries _extract_onset_features may return, as far as
\* classification reads them: non-negative band energies and features.
FeatureDicts ==
    [energy : [Range(DrumTypes) -> 0..MaxEnergy],
     spectral_centroid : SpectralCentroids,
     zero_crossing_rate : ZeroCrossingRates,
     spectral_rolloff : SpectralRolloffs,
     rms_energy : RmsEnergies]

\* The scores of _classify_single_event, in tenths of the energy unit: the band
\* energy, times 1.5, 1.3, 1.4 or 1.2 where the rule of the drum type applies.
Scores(features) ==
    [t \in Range(DrumTypes) |->
        LET score == 10 * features.energy[t]
        IN  CASE t = "kick" /\ features.spectral_centroid < 200
                    -> (score * 15) \div 10
              [] t = "snare" /\ 150 <= features.spectral_centroid
                             /\ features.spectral_centroid <= 400
                             /\ features.zero_crossing_rate > 10
                    -> (score * 13) \div 10
              [] t = "hihat" /\ features.spectral_centroid > 5000
                             /\ features.zero_crossing_rate > 15
                    -> (score * 14) \div 10
              [] t = "crash" /\ features.spectral_rolloff > 8000
                    -> (score * 12) \div 10
              [] OTHER -> score]

\* sum(scores.values())
RECURSIVE SumOver(_, _)
SumOver(scores, types) ==
    IF types = {} THEN 0
    ELSE LET t == CHOOSE x \in types : TRUE
         IN  scores[t] + SumOver(scores, types \ {t})

\* max(scores.values())
MaxScore(scores) ==
    CHOOSE m \in {scores[t] : t \in DOMAIN scores} : \A t \in DOMAIN scores : scores[t] <= m

\* _classify_single_event: (drum_type, confidence).
ClassifySingleEvent(features) ==
    LET scores == Scores(features)
    IN  IF MaxScore(scores) = 0
        THEN [drum_type |-> "unknown", confidence |-> Fraction(0, 1)]
        ELSE LET first == CHOOSE i \in 1..Len(DrumTypes) :
                            /\ scores[DrumTypes[i]] = MaxScore(scores)
                            /\ \A k \in 1..(i - 1) : scores[DrumTypes[k]] < MaxScore(scores)
                 best_drum    == DrumTypes[first]
                 max_score    == scores[best_drum]
                 total_energy == SumOver(scores, DOMAIN scores)
             IN  [drum_type |-> best_drum,
                  confidence |-> IF 2 * max_score >= total_energy
                                 THEN Fraction(1, 1)
                                 ELSE Fraction(2 * max_score, total_energy)]

\* velocity = min(1.0, rms_energy * 10), in hundredths.
Velocity(features) ==
    IF features.rms_energy * 10 >= 100 THEN 100 ELSE features.rms_energy * 10

\* frequency: the spectral centroid for kick and toms, None (written 0) for the
\* others.
Frequency(drum_type, features) ==
    IF drum_type \in {"tom_low", "tom_mid", "tom_high", "kick"}
    THEN features.spectral_centroid ELSE 0

\* DrumEvent(...)
DrumEvent(timestamp, drum_type, confidence, velocity, frequency) ==
    [timestamp |-> timestamp, drum_type |-> drum_type, confidence |-> confidence,
     velocity |-> velocity, frequency |-> frequency, duration |-> 10]

\* The body of the loop of _classify_drum_events as it would be without the
\* test of the confidence against classification_threshold.
ClassifyOnsetUngated(events, onset_time, feature_dict) ==
    LET c == ClassifySingleEvent(feature_dict)
    IN  Append(events, DrumEvent(onset_time, c.drum_type, c.confidence,
                                 Velocity(feature_dict),
                                 Frequency(c.drum_type, feature_dict)))

\* The body of the loop of _classify_drum_events: the events after one more
\* (onset_time, feature_dict) pair.
ClassifyOnset(events, onset_time, feature_dict) ==
    LET c == ClassifySingleEvent(feature_dict)
    IN  IF AtLeast(c.confidence, classification_threshold)
        THEN Append(events, DrumEvent(onset_time, c.drum_type, c.confidence,
                                      Velocity(feature_dict),
                                      Frequency(c.drum_type, feature_dict)))
        ELSE events

\* _detect_onsets has returned an onset and _extract_onset_features its feature
\* dictionary; _classify_drum_events starts.  The turns of its loop do not
\* depend on one another, so one onset reaches every outcome of a turn.
InitClassifyDrumEvents ==
    /\ JobsIdle
    /\ audio_pc = "classify"
    /\ onset_frames = [flux |-> {MaxFrame}, energy |-> {}, complex |-> {}]
    /\ unique_onsets = CombineOnsets(onset_frames)
    /\ onset_index = 0
    /\ classified = NoClassification
    /\ drum_events = <<>>
    /\ EngineIdle

\* One turn of the loop of _classify_drum_events, for any feature dictionary.
ClassifyDrumEvent(feature_dict) ==
    /\ audio_pc = "classify"
    /\ onset_index < Len(unique_onsets)
    /\ classified' = [drum_type  |-> ClassifySingleEvent(feature_dict).drum_type,
                      confidence |-> ClassifySingleEvent(feature_dict).confidence,
                      velocity   |-> Velocity(feature_dict)]
    /\ drum_events' = ClassifyOnset(drum_events, unique_onsets[onset_index + 1],
                                    feature_dict)
    /\ onset_index' = onset_index + 1
    /\ UNCHANGED <<audio_pc, onset_frames, unique_onsets, engineVars, jobVars>>

\* for i, (onset_time, feature_dict) in enumerate(zip(onsets, features))
NextClassifyDrumEvents ==
    /\ onset_index < Len(unique_onsets)
    /\ \E feature_dict \in FeatureDicts : ClassifyDrumEvent(feature_dict)

SpecClassifyDrumEvents == InitClassifyDrumEvents /\ [][NextClassifyDrumEvents]_vars

\* C20: a turn of the classification loop appends at most one event; the event
\* it appends has a confidence within [0,1] and not below
\* classification_threshold and a velocity within [0,1] (0..100 hundredths);
\* and a turn whose confidence is below the threshold appends nothing.
C20_EmittedEventsAboveThreshold ==
    [][/\ \A i \in 1..Len(drum_events') :
            /\ AtLeast(drum_events'[i].confidence, Fraction(0, 1))
            /\ AtLeast(Fraction(1, 1), drum_events'[i].confidence)
            /\ AtLeast(drum_events'[i].confidence, classification_threshold)
            /\ drum_events'[i].velocity \in 0..100
       /\ (onset_index' = onset_index + 1
                /\ ~AtLeast(classified'.confidence, classification_threshold))
            => drum_events' = drum_events
       /\ (onset_index' = onset_index + 1
                /\ AtLeast(classified'.confidence, classification_threshold))
            => /\ Len(drum_events') = Len(drum_events) + 1
               /\ drum_events'[Len(drum_events')].confidence = classified'.confidence
               /\ drum_events'[Len(drum_events')].velocity = classified'.velocity]_vars

\* C20 witness: an event has been emitted whose confidence is above the
\* threshold and below 1 and whose velocity is above 0 and below 1, by a kick
\* score that its rule raised.
C20_Witness ==
    /\ audio_pc = "classify" /\ onset_index = 1 /\ Len(drum_events) = 1
    /\ drum_events[1].drum_type = "kick"
    /\ drum_events[1].confidence = Fraction(30, 35)
    /\ drum_events[1].velocity = 50
    /\ drum_events[1].timestamp = FramesToTime(MaxFrame)

\* ---------------------------------------------------------------------------
\* DrumDetector._post_process_events
\* ---------------------------------------------------------------------------

\* Bounds of the post-processor runs: the events of a short list, drawn from
\* every frame, type and velocity below, and the length of a long list, whose
\* events are simultaneous.
MaxEvents == 3
LongListLen == 7

\* The integer that stands for the velocity 1.0 where velocities are averaged:
\* a velocity is a multiple of 1/40960, so that a tenth is 4096 and twelve
\* successive halvings of a sum of tenths are exact.
VelocityOne == 40960

\* velocity_threshold = 0.1
velocity_threshold == VelocityOne \div 10

\* The literals of _post_process_events: 0.02 s and 0.1 s in milliseconds, the
\* velocity difference 0.1, and the 5 of filtered_events[-5:].
duplicate_window_ms == 20
smoothing_window_ms == 100
duplicate_velocity_diff == VelocityOne \div 10
duplicate_lookback == 5

\* b - a < ms / 1000 seconds, for times in samples.
CloserThan(a, b, ms) == (b - a) * 1000 < ms * sr

\* abs(x)
Abs(x) == IF x < 0 THEN -x ELSE x

\* The insertion of a sort that is not stable: the event goes in front of the
\* events of the same timestamp.
RECURSIVE InsertBeforeEqualTimestamps(_, _)
InsertBeforeEqualTimestamps(event, sorted) ==
    IF sorted = <<>> THEN <<event>>
    ELSE IF event.timestamp <= Head(sorted).timestamp THEN <<event>> \o sorted
    ELSE <<Head(sorted)>> \o InsertBeforeEqualTimestamps(event, Tail(sorted))

\* list.sort(key=lambda e: e.timestamp) is stable: an event goes behind the
\* events of the same timestamp that precede it in the list.
RECURSIVE InsertByTimestamp(_, _)
InsertByTimestamp(event, sorted) ==
    IF sorted = <<>> THEN <<event>>
    ELSE IF event.timestamp < Head(sorted).timestamp THEN <<event>> \o sorted
    ELSE <<Head(sorted)>> \o InsertByTimestamp(event, Tail(sorted))

RECURSIVE SortByTimestamp(_)
SortByTimestamp(events) ==
    IF events = <<>> THEN <<>>
    ELSE InsertByTimestamp(events[Len(events)],
                           SortByTimestamp(SubSeq(events, 1, Len(events) - 1)))

\* [e for e in events if e.velocity >= self.config.velocity_threshold]
RECURSIVE RemoveLowVelocity(_)
RemoveLowVelocity(events) ==
    IF events = <<>> THEN <<>>
    ELSE IF Head(events).velocity >= velocity_threshold
         THEN <<Head(events)>> \o RemoveLowVelocity(Tail(events))
         ELSE RemoveLowVelocity(Tail(events))

\* filtered_events[-5:]
LastKept(kept) ==
    SubSeq(kept, IF Len(kept) > duplicate_lookback
                 THEN Len(kept) - duplicate_lookback + 1 ELSE 1, Len(kept))

\* The test of the inner loop of the duplicate removal.
SimilarTo(event, prev_event) ==
    /\ CloserThan(prev_event.timestamp, event.timestamp, duplicate_window_ms)
    /\ event.drum_type = prev_event.drum_type
    /\ Abs(event.velocity - prev_event.velocity) < duplicate_velocity_diff

\* is_duplicate after the inner loop.
IsDuplicate(event, kept) ==
    \E i \in 1..Len(LastKept(kept)) : SimilarTo(event, LastKept(kept)[i])

\* The duplicate removal: filtered_events after the events, given what it
\* held before them.
RECURSIVE RemoveDuplicates(_, _)
RemoveDuplicates(events, kept) ==
    IF events = <<>> THEN kept
    ELSE RemoveDuplicates(Tail(events),
                          IF IsDuplicate(Head(events), kept) THEN kept
                          ELSE Append(kept, Head(events)))

\* The test of the smoothing loop.
SmoothedTogether(prev_event, curr_event) ==
    /\ CloserThan(prev_event.timestamp, curr_event.timestamp, smoothing_window_ms)
    /\ curr_event.drum_type = prev_event.drum_type

\* The smoothing loop from index i (from 1, as in Python) onwards: the events
\* are changed in place, so a turn reads the velocity the turn before it wrote.
RECURSIVE SmoothVelocities(_, _)
SmoothVelocities(events, i) ==
    IF i >= Len(events) THEN events
    ELSE LET prev_event == events[i]
             curr_event == events[i + 1]
             avg_velocity == (prev_event.velocity + curr_event.velocity) \div 2
         IN  SmoothVelocities(
                 IF SmoothedTogether(prev_event, curr_event)
                 THEN [events EXCEPT ![i + 1].velocity = avg_velocity]
                 ELSE events,
                 i + 1)

\* _post_process_events as it would be without events.sort.
PostProcessEventsUnsorted(events) ==
    IF events = <<>> THEN events
    ELSE SmoothVelocities(RemoveDuplicates(RemoveLowVelocity(events), <<>>), 1)

\* _post_process_events(events)
PostProcessEvents(events) ==
    IF events = <<>> THEN events
    ELSE SmoothVelocities(
             RemoveDuplicates(RemoveLowVelocity(SortByTimestamp(events)), <<>>), 1)

\* The events given to the post-processor.  The frames of a short list lie one
\* frame (12 ms), two (23 ms), seven to eight (81 to 93 ms) and nine or more
\* (104 ms or more) apart; its velocities are 0.05, 0.1, 0.2, 0.25 and 0.8.
PostFrames == {0, 1, 8, MaxFrame}
PostDrumTypes == {"kick", "snare"}
PostVelocities == {k * (VelocityOne \div 20) : k \in {1, 2, 4, 5, 16}}
PostEvents ==
    {DrumEvent(FramesToTime(f), t, Fraction(7, 10), v, 0) :
        f \in PostFrames, t \in PostDrumTypes, v \in PostVelocities}

\* The events of a long list: simultaneous, no two of them similar.
LongVelocities == {k * (VelocityOne \div 20) : k \in {4, 8, 16}}
LongEvents ==
    {DrumEvent(FramesToTime(0), t, Fraction(7, 10), v, 0) :
        t \in PostDrumTypes, v \in LongVelocities}

SeqsUpTo(S, n) == UNION {[1..k -> S] : k \in 0..n}

\* The long lists: LongListLen events of which no two but the last are equal.
LongLists ==
    {events \in [1..LongListLen -> LongEvents] :
        \A i, j \in 1..(LongListLen - 1) : events[i] = events[j] => i = j}

\* _classify_drum_events has returned any list of events, in any order;
\* _post_process_events starts.
InitPostProcess ==
    /\ JobsIdle
    /\ audio_pc = "postprocess"
    /\ onset_frames = NoFrames
    /\ unique_onsets = <<>>
    /\ onset_index = 0
    /\ classified = NoClassification
    /\ drum_events \in SeqsUpTo(PostEvents, MaxEvents) \cup LongLists
    /\ filtered_events = <<>>
    /\ refiltered_events = <<>>
    /\ FeatIdle /\ LoopIdle /\ SepIdle

\* drum_events = await self._post_process_events(drum_events).
\* drum_events stays the list as it was passed, for comparison.
PostProcess ==
    /\ audio_pc = "postprocess"
    /\ filtered_events' = PostProcessEvents(drum_events)
    /\ audio_pc' = "postprocessed"
    /\ UNCHANGED <<onset_frames, unique_onsets, onset_index, classified, drum_events,
                   refiltered_events, featVars, loopVars, sepVars, jobVars>>

\* _post_process_events applied to its own result.
PostProcessAgain ==
    /\ audio_pc = "postprocessed"
    /\ refiltered_events' = PostProcessEvents(filtered_events)
    /\ audio_pc' = "reprocessed"
    /\ UNCHANGED <<onset_frames, unique_onsets, onset_index, classified, drum_events,
                   filtered_events, featVars, loopVars, sepVars, jobVars>>

NextPostProcess == PostProcess \/ PostProcessAgain

SpecPostProcess == InitPostProcess /\ [][NextPostProcess]_vars

\* The post-processor has returned.
PostProcessed == audio_pc \in {"postprocessed", "reprocessed"}

\* The event but for its velocity, which the smoothing loop rewrites in place.
WithoutVelocity(event) == [event EXCEPT !.velocity = 0]

\* The timestamps of the list do not decrease.
NonDecreasingTimestamps(events) ==
    \A i \in 1..(Len(events) - 1) : events[i].timestamp <= events[i + 1].timestamp

\* The events of out are events of inp, each taken once and in the order of
\* their timestamps, as far as everything but the velocity goes: out is matched
\* from the left against the sorted input.
RECURSIVE IsSubsequence(_, _)
IsSubsequence(out, inp) ==
    IF out = <<>> THEN TRUE
    ELSE IF inp = <<>> THEN FALSE
    ELSE IF WithoutVelocity(Head(out)) = WithoutVelocity(Head(inp))
            /\ IsSubsequence(Tail(out), Tail(inp))
         THEN TRUE
         ELSE IsSubsequence(out, Tail(inp))

\* C21: whatever list of events the post-processor is given, the list it returns
\* is non-decreasing in timestamp, is not longer than the list given, and
\* consists of events of the list given (each at most once, with the velocity
\* the smoothing left it).
C21_OutputSortedAndFromInput ==
    PostProcessed =>
        /\ NonDecreasingTimestamps(filtered_events)
        /\ Len(filtered_events) <= Len(drum_events)
        /\ IsSubsequence(filtered_events, SortByTimestamp(drum_events))
        /\ \A i \in 1..Len(filtered_events) :
                \E j \in 1..Len(drum_events) :
                    WithoutVelocity(filtered_events[i]) = WithoutVelocity(drum_events[j])

\* C21 witness: three events given out of order, the earliest one below the
\* velocity threshold; the two others returned in the order of their timestamps.
C21_Witness ==
    /\ audio_pc = "postprocessed"
    /\ Len(drum_events) = 3 /\ Len(filtered_events) = 2
    /\ drum_events[1].timestamp > drum_events[2].timestamp
    /\ drum_events[2].timestamp > drum_events[3].timestamp
    /\ drum_events[3].velocity < velocity_threshold
    /\ filtered_events[1] = drum_events[2]
    /\ filtered_events[2] = drum_events[1]

\* The list the duplicate removal scans: the input sorted, without the events
\* below the velocity threshold.
ScannedEvents == RemoveLowVelocity(SortByTimestamp(drum_events))

\* The events kept when the scan has gone through the first k events.
KeptAfter(k) == RemoveDuplicates(SubSeq(ScannedEvents, 1, k), <<>>)

\* The two events are of the same instrument, less than 20 ms apart, and their
\* velocities differ by 0.1 or less.
WithinDuplicateLimits(event, prev_event) ==
    /\ CloserThan(prev_event.timestamp, event.timestamp, duplicate_window_ms)
    /\ event.drum_type = prev_event.drum_type
    /\ Abs(event.velocity - prev_event.velocity) <= duplicate_velocity_diff

\* C22: in the duplicate removal, scanning the events in timestamp order, an
\* event is dropped exactly when one of the 5 events kept last is of the same
\* instrument, less than 20 ms before it, and differs from it in velocity by
\* 0.1 or less; otherwise it is appended to the kept events.  The list returned
\* consists of the events kept.
C22_DroppedExactlyWhenWithinLimits ==
    PostProcessed =>
        /\ Len(filtered_events) = Len(KeptAfter(Len(ScannedEvents)))
        /\ \A i \in 1..Len(filtered_events) :
                WithoutVelocity(filtered_events[i])
                    = WithoutVelocity(KeptAfter(Len(ScannedEvents))[i])
        /\ \A k \in 1..Len(ScannedEvents) :
                LET kept == KeptAfter(k - 1)
                    event == ScannedEvents[k]
                IN  IF \E i \in 1..Len(LastKept(kept)) :
                            WithinDuplicateLimits(event, LastKept(kept)[i])
                    THEN KeptAfter(k) = kept
                    ELSE KeptAfter(k) = Append(kept, event)

\* The velocities the kept events had before the smoothing loop.
KeptEvents == KeptAfter(Len(ScannedEvents))

\* C23: in the smoothing step, for every two adjacent kept events of the same
\* instrument less than 100 ms apart, both events' velocities are replaced by
\* the average of the two: a pair that no other such pair overlaps ends with
\* both velocities equal to the average of the velocities the two had.
C23_BothVelocitiesAveraged ==
    PostProcessed =>
        \A i \in 1..(Len(KeptEvents) - 1) :
            (/\ SmoothedTogether(KeptEvents[i], KeptEvents[i + 1])
             /\ i > 1 => ~SmoothedTogether(KeptEvents[i - 1], KeptEvents[i])
             /\ i + 2 <= Len(KeptEvents)
                    => ~SmoothedTogether(KeptEvents[i + 1], KeptEvents[i + 2]))
            => /\ filtered_events[i].velocity * 2
                    = KeptEvents[i].velocity + KeptEvents[i + 1].velocity
               /\ filtered_events[i + 1].velocity * 2
                    = KeptEvents[i].velocity + KeptEvents[i + 1].velocity

\* The post-processor has returned from the call on its own result.
Reprocessed == audio_pc = "reprocessed"

\* C28 as stated: applying _post_process_events to its own output returns the
\* same events, in the same order, with the same velocities.
C28_PostProcessIdempotent ==
    Reprocessed => refiltered_events = filtered_events

\* C28: applying _post_process_events to its own output returns events of that
\* output, in the same order; it returns all of them, with the same velocities,
\* whenever the smoothing loop of the first call changed no velocity.
C28_IdempotentWhenNothingSmoothed ==
    Reprocessed =>
        /\ IsSubsequence(refiltered_events, filtered_events)
        /\ filtered_events = KeptEvents => refiltered_events = filtered_events

\* C28 witness: a first call that dropped an event and whose smoothing loop met
\* a pair of one instrument less than 100 ms apart, of equal velocities; the
\* second call returned the same two events.
C28_Witness ==
    /\ Reprocessed
    /\ Len(drum_events) = 3 /\ Len(filtered_events) = 2
    /\ SmoothedTogether(KeptEvents[1], KeptEvents[2])
    /\ filtered_events = KeptEvents
    /\ refiltered_events = filtered_events

\* ---------------------------------------------------------------------------
\* DrumDetector._extract_onset_features and the pairs of _classify_drum_events
\* ---------------------------------------------------------------------------

\* window_before = 0.01 and window_after = 0.2, in milliseconds, and the 0.05 of
\* the shortest segment analysed.
window_before_ms == 10
window_after_ms == 200
min_segment_ms == 50

\* Milliseconds in samples.
Samples(ms) == (ms * sr) \div 1000

Max(a, b) == IF a >= b THEN a ELSE b
Min(a, b) == IF a <= b THEN a ELSE b

\* len(y[start_sample:end_sample]) for an onset time in samples.  The times are
\* whole samples here; int() of the float product may be one sample less.
SegmentLength(len_y, onset_time) ==
    LET start_sample == Max(0, onset_time - Samples(window_before_ms))
        end_sample   == Min(len_y, onset_time + Samples(window_after_ms))
    IN  Max(0, end_sample - start_sample)

\* if len(segment) < sr * 0.05: continue
SegmentTooShort(len_y, onset_time) ==
    SegmentLength(len_y, onset_time) * 1000 < min_segment_ms * sr

\* The audio buffers of the runs: one that ends 1000 samples after the last
\* frame, so that the windows of the last onsets are short, and one that ends
\* after every window.
AudioLengths ==
    {MaxFrame * hop_length + 1000,
     MaxFrame * hop_length + Samples(window_after_ms) + 1}

\* The feature dictionaries of the runs: one that classifies as a kick, one
\* that classifies as a snare, and one with the same energy in every band,
\* whose confidence is below the threshold.
BandEnergy(types) == [t \in Range(DrumTypes) |-> IF t \in types THEN 1 ELSE 0]
ExtractedFeatureDicts ==
    {[energy |-> BandEnergy(types), spectral_centroid |-> 100,
      zero_crossing_rate |-> 5, spectral_rolloff |-> 2000, rms_energy |-> 5] :
        types \in {{"kick"}, {"snare"}, Range(DrumTypes)}}

\* _detect_onsets has returned; _extract_onset_features starts on a buffer
\* that holds every onset frame.
InitExtractOnsetFeatures ==
    /\ JobsIdle
    /\ audio_pc = "extract"
    /\ onset_frames \in [flux : EstimatorOutputs, energy : {{}, {MaxFrame}},
                         complex : {{}}]
    /\ unique_onsets = CombineOnsets(onset_frames)
    /\ onset_index = 0
    /\ classified = NoClassification
    /\ drum_events = <<>>
    /\ y_len \in AudioLengths
    /\ extracted_features = <<>>
    /\ extract_index = 0
    /\ feature_onsets = <<>>
    /\ event_onsets = <<>>
    /\ PostIdle /\ LoopIdle /\ SepIdle

\* One turn of the loop of _extract_onset_features: the segment is too short
\* and the onset is skipped, or an exception is caught and the onset is
\* skipped (failed), or the dictionary is appended.
ExtractOnsetFeatures(failed, feature_dict) ==
    /\ audio_pc = "extract"
    /\ extract_index < Len(unique_onsets)
    /\ LET onset_time == unique_onsets[extract_index + 1]
       IN  IF SegmentTooShort(y_len, onset_time) \/ failed
           THEN UNCHANGED <<extracted_features, feature_onsets>>
           ELSE /\ extracted_features' = Append(extracted_features, feature_dict)
                /\ feature_onsets' = Append(feature_onsets, onset_time)
    /\ extract_index' = extract_index + 1
    /\ UNCHANGED <<audio_pc, onset_frames, unique_onsets, onset_index, classified,
                   drum_events, y_len, event_onsets, postVars, loopVars, sepVars,
                   jobVars>>

\* _extract_onset_features returns and _classify_drum_events starts.
ReturnFeatures ==
    /\ audio_pc = "extract"
    /\ extract_index = Len(unique_onsets)
    /\ audio_pc' = "classify_pairs"
    /\ UNCHANGED <<onset_frames, unique_onsets, onset_index, classified, drum_events,
                   featVars, postVars, loopVars, sepVars, jobVars>>

\* zip(onsets, features): the pairs end with the shorter of the two.
Zip(onsets, dicts) ==
    [i \in 1..Min(Len(onsets), Len(dicts)) |-> <<onsets[i], dicts[i]>>]

\* One turn of the loop of _classify_drum_events over zip(onsets, features).
ClassifyPair ==
    /\ audio_pc = "classify_pairs"
    /\ onset_index < Len(Zip(unique_onsets, extracted_features))
    /\ LET pair         == Zip(unique_onsets, extracted_features)[onset_index + 1]
           onset_time   == pair[1]
           feature_dict == pair[2]
       IN  /\ classified' = [drum_type  |-> ClassifySingleEvent(feature_dict).drum_type,
                             confidence |-> ClassifySingleEvent(feature_dict).confidence,
                             velocity   |-> Velocity(feature_dict)]
           /\ drum_events' = ClassifyOnset(drum_events, onset_time, feature_dict)
           /\ event_onsets' =
                IF Len(ClassifyOnset(drum_events, onset_time, feature_dict))
                        > Len(drum_events)
                THEN Append(event_onsets, feature_onsets[onset_index + 1])
                ELSE event_onsets
    /\ onset_index' = onset_index + 1
    /\ UNCHANGED <<audio_pc, onset_frames, unique_onsets, y_len, extracted_features,
                   extract_index, feature_onsets, postVars, loopVars, sepVars, jobVars>>

NextExtractAndClassify ==
    \/ /\ audio_pc = "extract"
       /\ extract_index < Len(unique_onsets)
       /\ \E failed \in BOOLEAN, feature_dict \in ExtractedFeatureDicts :
            ExtractOnsetFeatures(failed, feature_dict)
    \/ ReturnFeatures
    \/ ClassifyPair

SpecExtractAndClassify == InitExtractOnsetFeatures /\ [][NextExtractAndClassify]_vars

\* C27: every DrumEvent of a detection run carries the timestamp of the onset
\* whose analysis window produced its features, whichever onsets the feature
\* extraction skipped for a short window or for an exception.
C27_EventCarriesItsOnsetTime ==
    /\ Len(event_onsets) = Len(drum_events)
    /\ \A i \in 1..Len(drum_events) : drum_events[i].timestamp = event_onsets[i]

\* ---------------------------------------------------------------------------
\* start_job_processor, stop_job_processor and the loops of JobProcessor.start
\* ---------------------------------------------------------------------------

\* The calls of start_job_processor in a run.
MaxTasks == 3

\* Where a task running JobProcessor.start is, between two of its awaits:
\* created and not yet run, in process_pending_jobs waiting for the pending
\* jobs, in the handler of a job, in asyncio.sleep, or returned.
TaskStates == {"created", "get_pending_jobs", "handler", "sleep", "returned"}

InitStartStop ==
    /\ JobsIdle
    /\ AudioIdle

\* start_job_processor: asyncio.create_task(job_processor.start()).
StartJobProcessor ==
    /\ Len(tasks) < MaxTasks
    /\ tasks' = Append(tasks, "created")
    /\ UNCHANGED <<is_running, audio_pc, onset_frames, unique_onsets, onset_index,
                   classified, drum_events, postVars, featVars, sepVars, jobVars>>

\* stop_job_processor: stop() and cleanup() both clear the flag.
StopJobProcessor ==
    /\ tasks # <<>>
    /\ is_running' = FALSE
    /\ UNCHANGED <<tasks, audio_pc, onset_frames, unique_onsets, onset_index,
                   classified, drum_events, postVars, featVars, sepVars, jobVars>>

\* The task runs JobProcessor.start up to its first await: it returns when the
\* flag is set, otherwise it sets the flag and enters the while loop.
TaskStart(t) ==
    /\ tasks[t] = "created"
    /\ IF is_running
       THEN /\ tasks' = [tasks EXCEPT ![t] = "returned"]
            /\ UNCHANGED is_running
       ELSE /\ is_running' = TRUE
            /\ tasks' = [tasks EXCEPT ![t] = "get_pending_jobs"]
    /\ UNCHANGED <<audio_pc, onset_frames, unique_onsets, onset_index,
                   classified, drum_events, postVars, featVars, sepVars, jobVars>>

\* process_pending_jobs has the pending jobs: with none it returns and the
\* task sleeps, otherwise the task enters the handler of the first of them.
TaskGetPendingJobs(t, pending) ==
    /\ tasks[t] = "get_pending_jobs"
    /\ tasks' = [tasks EXCEPT ![t] = IF pending THEN "handler" ELSE "sleep"]
    /\ UNCHANGED <<is_running, audio_pc, onset_frames, unique_onsets, onset_index,
                   classified, drum_events, postVars, featVars, sepVars, jobVars>>

\* The handler of the last pending job returns or raises; the task sleeps.
TaskHandlerDone(t) ==
    /\ tasks[t] = "handler"
    /\ tasks' = [tasks EXCEPT ![t] = "sleep"]
    /\ UNCHANGED <<is_running, audio_pc, onset_frames, unique_onsets, onset_index,
                   classified, drum_events, postVars, featVars, sepVars, jobVars>>

\* asyncio.sleep(self.poll_interval) returns and the while loop tests the flag.
TaskWakes(t) ==
    /\ tasks[t] = "sleep"
    /\ tasks' = [tasks EXCEPT ![t] = IF is_running THEN "get_pending_jobs"
                                     ELSE "returned"]
    /\ UNCHANGED <<is_running, audio_pc, onset_frames, unique_onsets, onset_index,
                   classified, drum_events, postVars, featVars, sepVars, jobVars>>

NextStartStop ==
    \/ StartJobProcessor
    \/ StopJobProcessor
    \/ \E t \in 1..Len(tasks) : TaskStart(t)
    \/ \E t \in 1..Len(tasks), pending \in BOOLEAN : TaskGetPendingJobs(t, pending)
    \/ \E t \in 1..Len(tasks) : TaskHandlerDone(t)
    \/ \E t \in 1..Len(tasks) : TaskWakes(t)

SpecStartStop == InitStartStop /\ [][NextStartStop]_vars

\* The tasks that are inside a stage handler.
TasksInHandler == {t \in 1..Len(tasks) : tasks[t] = "handler"}

\* C26: at most one stage handler executes at any time, after any sequence of
\* calls of start_job_processor and stop_job_processor and of poll cycles.
C26_AtMostOneHandlerExecutes ==
    Cardinality(TasksInHandler) <= 1

\* ---------------------------------------------------------------------------
\* DrumSourceSeparator: NMF separation and the saving of the sources
\* ---------------------------------------------------------------------------

\* A Python dict is a sequence of entries with distinct keys, in the order in
\* which the keys were first set.
DictKeys(d) == {d[i].key : i \in 1..Len(d)}
DictGet(d, key) == d[CHOOSE i \in 1..Len(d) : d[i].key = key].value
DictSet(d, key, value) ==
    IF key \in DictKeys(d)
    THEN [i \in 1..Len(d) |-> IF d[i].key = key THEN [key |-> key, value |-> value]
                              ELSE d[i]]
    ELSE Append(d, [key |-> key, value |-> value])

\* The components of an NMF run: n_components of the runs (8 in SeparationConfig).
NumComponents == 2

\* frequency_ranges, in the order of the dict, in Hz.
FrequencyBands == <<"kick", "snare", "hihat", "cymbals", "toms">>

\* np.max(np.abs(audio_data)) < 1e-6: the samples of a waveform are integers,
\* one unit being half of 1e-6.
silent_peak == 2

\* np.max(np.abs(audio_data)) of a waveform that is not empty.
Peak(audio_data) ==
    CHOOSE p \in {Abs(audio_data[i]) : i \in 1..Len(audio_data)} :
        \A i \in 1..Len(audio_data) : Abs(audio_data[i]) <= p

\* The waveforms a separation returns: all zero, below 1e-6, of peak 1e-6, loud.
SourceAudios == {<<0, 0>>, <<0, -1>>, <<2, 0>>, <<-200, 100>>}

\* What _classify_separated_source computes from the magnitude of a component:
\* the energy within each band and outside all of them, and the spectral centroid.
ComponentSpectra ==
    [band_energy : [Range(FrequencyBands) -> 0..1], other_energy : 0..1,
     spectral_centroid : {100, 175, 300, 4000, 6000}]

\* np.sum(magnitude) is zero.
NoEnergy(spectrum) ==
    /\ spectrum.other_energy = 0
    /\ \A b \in Range(FrequencyBands) : spectrum.band_energy[b] = 0

\* max(band_energies.keys(), key=...): the first band of the largest energy.
DominantBand(spectrum) ==
    FrequencyBands[CHOOSE i \in 1..Len(FrequencyBands) :
        /\ \A k \in 1..Len(FrequencyBands) :
                spectrum.band_energy[FrequencyBands[k]]
                    <= spectrum.band_energy[FrequencyBands[i]]
        /\ \A k \in 1..(i - 1) :
                spectrum.band_energy[FrequencyBands[k]]
                    < spectrum.band_energy[FrequencyBands[i]]]

\* A source name: a fixed name, or f"{prefix}_component_{component_idx}".
FixedName(name) == [name |-> name, component_idx |-> -1]
ComponentName(prefix, component_idx) == [name |-> prefix, component_idx |-> component_idx]

\* _classify_separated_source(magnitude, sr, component_idx): the source name.
ClassifySeparatedSource(spectrum, component_idx) ==
    LET dominant_band == DominantBand(spectrum)
        spectral_centroid == spectrum.spectral_centroid
    IN  IF NoEnergy(spectrum) THEN ComponentName("silent", component_idx)
        ELSE IF dominant_band = "kick" /\ spectral_centroid < 200
             THEN FixedName("kick_drum")
        ELSE IF dominant_band = "snare" /\ 150 < spectral_centroid
                    /\ spectral_centroid < 500
             THEN FixedName("snare_drum")
        ELSE IF dominant_band = "hihat" /\ spectral_centroid > 5000
             THEN FixedName("hihat")
        ELSE IF dominant_band = "cymbals" /\ spectral_centroid > 3000
             THEN FixedName("cymbals")
        ELSE IF dominant_band = "toms" THEN FixedName("toms")
        ELSE ComponentName(dominant_band, component_idx)

\* The path of a saved source: f"{source_name}.wav" in the directory of the file.
SavedPath(source_name) == [source_name |-> source_name, extension |-> "wav"]

\* The loop of _save_separated_sources as it would be without the test of the
\* peak: every source is written.
RECURSIVE SaveSourcesUnfiltered(_, _, _)
SaveSourcesUnfiltered(sources, i, saved_paths) ==
    IF i > Len(sources) THEN saved_paths
    ELSE SaveSourcesUnfiltered(sources, i + 1,
                               DictSet(saved_paths, sources[i].key,
                                       SavedPath(sources[i].key)))

\* The loop of _save_separated_sources over the entries from index i on.
RECURSIVE SaveSources(_, _, _)
SaveSources(sources, i, saved_paths) ==
    IF i > Len(sources) THEN saved_paths
    ELSE SaveSources(sources, i + 1,
                     IF Peak(sources[i].value) < silent_peak THEN saved_paths
                     ELSE DictSet(saved_paths, sources[i].key,
                                  SavedPath(sources[i].key)))

\* sf.write is called for some source.
WriteCalled(sources) == \E i \in 1..Len(sources) : Peak(sources[i].value) >= silent_peak

\* _save_separated_sources(sources, ...): an exception of sf.write (write_fails)
\* is caught and {} returned; sf.write is called when a source is not skipped.
SaveSeparatedSources(sources, write_fails) ==
    IF write_fails /\ WriteCalled(sources) THEN <<>>
    ELSE SaveSources(sources, 1, <<>>)

\* separate_drum_sources(method="nmf") has loaded the audio and _separate_nmf
\* has factorised its spectrogram.
InitSeparateNmf ==
    /\ JobsIdle
    /\ audio_pc = "idle"
    /\ onset_frames = NoFrames
    /\ unique_onsets = <<>>
    /\ onset_index = 0
    /\ classified = NoClassification
    /\ drum_events = <<>>
    /\ PostIdle /\ FeatIdle /\ LoopIdle
    /\ sep_pc = "nmf"
    /\ component_labels = <<>>
    /\ separated_sources = <<>>
    /\ separated_paths = <<>>
    /\ stem_paths = <<>>
    /\ original = <<>>
    /\ metrics = <<>>

\* One turn of the loop of _separate_nmf, for component i = Len(component_labels)
\* with any spectrum and any waveform:
\* separated_sources[source_name] = source_audio.
SeparateComponent(spectrum, source_audio) ==
    /\ sep_pc = "nmf"
    /\ Len(component_labels) < NumComponents
    /\ LET source_name == ClassifySeparatedSource(spectrum, Len(component_labels))
       IN  /\ component_labels' = Append(component_labels, source_name)
           /\ separated_sources' = DictSet(separated_sources, source_name, source_audio)
    /\ UNCHANGED <<sep_pc, separated_paths, stem_paths, original, metrics, audio_pc,
                   onset_frames, unique_onsets, onset_index, classified, drum_events,
                   postVars, featVars, loopVars, jobVars>>

\* _separate_nmf returns; separate_drum_sources saves the sources
\* (save_separated is True) and returns the paths.
SaveAndReturnPaths(write_fails) ==
    /\ sep_pc = "nmf"
    /\ Len(component_labels) = NumComponents
    /\ separated_paths' = SaveSeparatedSources(separated_sources, write_fails)
    /\ sep_pc' = IF write_fails /\ WriteCalled(separated_sources)
                 THEN "write_failed" ELSE "returned"
    /\ UNCHANGED <<component_labels, separated_sources, stem_paths, original, metrics, audio_pc,
                   onset_frames, unique_onsets, onset_index, classified, drum_events,
                   postVars, featVars, loopVars, jobVars>>

NextSeparateNmf ==
    \/ /\ sep_pc = "nmf"
       /\ Len(component_labels) < NumComponents
       /\ \E spectrum \in ComponentSpectra, source_audio \in SourceAudios :
            SeparateComponent(spectrum, source_audio)
    \/ \E write_fails \in BOOLEAN : SaveAndReturnPaths(write_fails)

SpecSeparateNmf == InitSeparateNmf /\ [][NextSeparateNmf]_vars

\* C30: the components of an NMF run receive pairwise distinct labels, so the
\* map from label to waveform has one entry per component and the waveform of
\* no component is overwritten by that of another.
C30_OneEntryPerComponent ==
    /\ \A i, j \in 1..Len(component_labels) :
            component_labels[i] = component_labels[j] => i = j
    /\ Len(separated_sources) = Len(component_labels)
    /\ DictKeys(separated_sources) = Range(component_labels)

\* The names of the sources whose peak is below 1e-6, and of the others.
SilentSources ==
    {separated_sources[i].key : i \in {k \in 1..Len(separated_sources) :
                                        Peak(separated_sources[k].value) < silent_peak}}
AudibleSources == DictKeys(separated_sources) \ SilentSources

\* C25: the map of paths a separation run returns never has an entry for a
\* source whose peak is below 1e-6; unless a write failed, it has an entry for
\* every other source, in the order of the sources; and a run whose sources
\* are all silent returns the empty map without an error.
C25_SilentSourcesExcluded ==
    sep_pc \in {"returned", "write_failed"} =>
        /\ DictKeys(separated_paths) \cap SilentSources = {}
        /\ sep_pc = "returned" =>
            /\ DictKeys(separated_paths) = AudibleSources
            /\ \A i \in 1..Len(separated_paths) :
                    /\ separated_paths[i].value = SavedPath(separated_paths[i].key)
                    /\ \A j \in 1..Len(separated_paths) :
                        i < j => \E k, l \in 1..Len(separated_sources) :
                                    /\ k < l
                                    /\ separated_sources[k].key = separated_paths[i].key
                                    /\ separated_sources[l].key = separated_paths[j].key
        /\ AudibleSources = {} => sep_pc = "returned" /\ separated_paths = <<>>

\* C25 witness: a run of two sources, the first with a peak below 1e-6 and not
\* zero, the second with a peak of 1e-6; the map returned holds the second only.
C25_Witness ==
    /\ sep_pc = "returned"
    /\ Len(separated_sources) = 2
    /\ Peak(separated_sources[1].value) = 1
    /\ Peak(separated_sources[2].value) = silent_peak
    /\ Len(separated_paths) = 1
    /\ separated_paths[1].key = separated_sources[2].key

\* ---------------------------------------------------------------------------
\* AudioStemExporter.create_drum_stems
\* ---------------------------------------------------------------------------

\* stem_groups, in the order of the dict.
StemNames == <<"kick", "snare", "hihat", "cymbals", "toms", "percussion">>
StemGroup(stem_name) ==
    CASE stem_name = "kick"       -> <<"kick_drum", "kick">>
      [] stem_name = "snare"      -> <<"snare_drum", "snare">>
      [] stem_name = "hihat"      -> <<"hihat">>
      [] stem_name = "cymbals"    -> <<"cymbals", "crash">>
      [] stem_name = "toms"       -> <<"toms", "tom_low", "tom_mid", "tom_high">>
      [] stem_name = "percussion" -> <<"percussion", "misc">>

\* s in sep_name.lower(), for the names of stem_groups and the source names the
\* separation methods produce: the stem words that are substrings of the name.
StemWordsIn(sep_name) ==
    CASE sep_name.name = "kick_drum"  -> {"kick_drum", "kick"}
      [] sep_name.name = "snare_drum" -> {"snare_drum", "snare"}
      [] sep_name.name \in {"kick", "snare", "hihat", "cymbals", "toms"}
                                       -> {sep_name.name}
      [] OTHER -> {}

\* any(s in sep_name.lower() for s in source_names)
MatchesGroup(sep_name, source_names) ==
    \E k \in 1..Len(source_names) : source_names[k] \in StemWordsIn(sep_name)

\* stem_audio[:min_len] += sep_audio[:min_len]
AddAudio(stem_audio, sep_audio) ==
    [n \in 1..Len(stem_audio) |->
        IF n <= Len(sep_audio) THEN stem_audio[n] + sep_audio[n] ELSE stem_audio[n]]

\* The inner loop over separated_sources.items(), from entry i on.
RECURSIVE AddMatchingSources(_, _, _, _)
AddMatchingSources(stem_audio, sources, source_names, i) ==
    IF i > Len(sources) THEN stem_audio
    ELSE AddMatchingSources(
             IF MatchesGroup(sources[i].key, source_names)
             THEN AddAudio(stem_audio, sources[i].value) ELSE stem_audio,
             sources, source_names, i + 1)

\* The loop over source_names, from name k on: every turn adds every matching
\* source.
RECURSIVE StemAudio(_, _, _, _)
StemAudio(stem_audio, sources, source_names, k) ==
    IF k > Len(source_names) THEN stem_audio
    ELSE StemAudio(AddMatchingSources(stem_audio, sources, source_names, 1),
                   sources, source_names, k + 1)

\* np.zeros_like(y), for an audio of the length of the waveforms.
ZerosLikeY == <<0, 0>>

\* The path of a stem: f"{stem_name}.{export_format}" in the stem directory.
StemPath(stem_name) == [stem_name |-> stem_name, extension |-> "wav"]

\* The loop over stem_groups, from stem i on.
RECURSIVE ExportStems(_, _, _)
ExportStems(sources, i, paths) ==
    IF i > Len(StemNames) THEN paths
    ELSE ExportStems(sources, i + 1,
            IF Peak(StemAudio(ZerosLikeY, sources, StemGroup(StemNames[i]), 1))
                    < silent_peak
            THEN paths
            ELSE DictSet(paths, StemNames[i], StemPath(StemNames[i])))

\* The stems of create_drum_stems, given what separate_drum_sources returned;
\* an exception of sf.write (write_fails) is caught and {} returned.
CreateStems(sources, write_fails) ==
    IF write_fails /\ ExportStems(sources, 1, <<>>) # <<>> THEN <<>>
    ELSE ExportStems(sources, 1, <<>>)

\* create_drum_stems has called separate_drum_sources(method="spectral",
\* save_separated=False), which has loaded the audio.
InitCreateDrumStems ==
    /\ JobsIdle
    /\ audio_pc = "idle"
    /\ onset_frames = NoFrames
    /\ unique_onsets = <<>>
    /\ onset_index = 0
    /\ classified = NoClassification
    /\ drum_events = <<>>
    /\ PostIdle /\ FeatIdle /\ LoopIdle
    /\ sep_pc = "spectral"
    /\ component_labels = <<>>
    /\ separated_sources = <<>>
    /\ separated_paths = <<>>
    /\ stem_paths = <<>>
    /\ original = <<>>
    /\ metrics = <<>>

\* _separate_spectral_masking: one source per frequency band, in the order of
\* frequency_ranges, each any waveform.
SeparateSpectralMasking(audio) ==
    /\ sep_pc = "spectral"
    /\ separated_sources' =
            [i \in 1..Len(FrequencyBands) |->
                [key |-> FixedName(FrequencyBands[i]), value |-> audio[FrequencyBands[i]]]]
    /\ sep_pc' = "separated"
    /\ UNCHANGED <<component_labels, separated_paths, stem_paths, original, metrics, audio_pc,
                   onset_frames, unique_onsets, onset_index, classified, drum_events,
                   postVars, featVars, loopVars, jobVars>>

\* separate_drum_sources returns separated_paths, which is {} when
\* save_separated is False.
ReturnPathsUnsaved ==
    /\ sep_pc = "separated"
    /\ separated_paths' = <<>>
    /\ sep_pc' = "paths_returned"
    /\ UNCHANGED <<component_labels, separated_sources, stem_paths, original, metrics, audio_pc,
                   onset_frames, unique_onsets, onset_index, classified, drum_events,
                   postVars, featVars, loopVars, jobVars>>

\* The rest of create_drum_stems, on the dict separate_drum_sources returned.
CreateDrumStems(write_fails) ==
    /\ sep_pc = "paths_returned"
    /\ stem_paths' = CreateStems(separated_paths, write_fails)
    /\ sep_pc' = "stems_returned"
    /\ UNCHANGED <<component_labels, separated_sources, separated_paths, original, metrics,
                   audio_pc, onset_frames, unique_onsets, onset_index, classified,
                   drum_events, postVars, featVars, loopVars, jobVars>>

NextCreateDrumStems ==
    \/ /\ sep_pc = "spectral"
       /\ \E audio \in [Range(FrequencyBands) -> SourceAudios] :
            SeparateSpectralMasking(audio)
    \/ ReturnPathsUnsaved
    \/ \E write_fails \in BOOLEAN : CreateDrumStems(write_fails)

SpecCreateDrumStems == InitCreateDrumStems /\ [][NextCreateDrumStems]_vars

\* The stem groups for which the spectral separation produced a matching
\* source that is not silent.
StemsWithAudibleSource ==
    {StemNames[g] : g \in {h \in 1..Len(StemNames) :
        \E i \in 1..Len(separated_sources) :
            /\ MatchesGroup(separated_sources[i].key, StemGroup(StemNames[h]))
            /\ Peak(separated_sources[i].value) >= silent_peak}}

\* C29: create_drum_stems returns a stem entry for every stem group (kick,
\* snare, hihat, cymbals, toms) for which the spectral separation it ran
\* produced a matching source that is not silent.
C29_StemForEveryAudibleSource ==
    sep_pc = "stems_returned" => StemsWithAudibleSource \subseteq DictKeys(stem_paths)

\* ---------------------------------------------------------------------------
\* DrumSourceSeparator.get_separation_quality_metrics
\* ---------------------------------------------------------------------------

\* The sources given to the metrics, and the samples of a waveform.
MaxSources == 3
MetricSamples == 3

\* The waveforms of the metrics runs: empty, or MetricSamples samples that are
\* each zero or loud.
LoudSample == 3
MetricAudios == {<<>>} \cup [1..MetricSamples -> {0, LoudSample}]

\* np.sum(x[:n]), np.sum(x[:n] ** 2) and np.sum(x[:n] * y[:n])
RECURSIVE SumTo(_, _)
SumTo(x, n) == IF n = 0 THEN 0 ELSE SumTo(x, n - 1) + x[n]
RECURSIVE DotTo(_, _, _)
DotTo(x, y, n) == IF n = 0 THEN 0 ELSE DotTo(x, y, n - 1) + x[n] * y[n]

\* The integer square root.
ISqrt(n) == CHOOSE r \in 0..n : r * r <= n /\ (r + 1) * (r + 1) > n

\* n times the sum of squared deviations of x[:n], and of the products of the
\* deviations of x[:n] and y[:n].
Variation(x, n) == n * DotTo(x, x, n) - SumTo(x, n) * SumTo(x, n)
Covariation(x, y, n) == n * DotTo(x, y, n) - SumTo(x, n) * SumTo(y, n)

\* np.isnan(np.corrcoef(s1[:min_len], s2[:min_len])[0, 1]): a waveform without
\* variation has no correlation.
CorrelationIsNan(s1, s2) ==
    LET min_len == Min(Len(s1), Len(s2))
    IN  Variation(s1, min_len) = 0 \/ Variation(s2, min_len) = 0

\* abs(corr) as a fraction; the square root is exact for the waveforms above.
AbsCorrelation(s1, s2) ==
    LET min_len == Min(Len(s1), Len(s2))
    IN  Fraction(Abs(Covariation(s1, s2, min_len)),
                 ISqrt(Variation(s1, min_len) * Variation(s2, min_len)))

\* The sum of two fractions.
AddFractions(a, b) == Fraction(a.num * b.den + b.num * a.den, a.den * b.den)

\* The two loops over the sources: the sum and the number of the correlations
\* appended, over the pairs (i, j) from (i, j) on.
RECURSIVE Correlations(_, _, _, _)
Correlations(source_arrays, i, j, acc) ==
    IF i > Len(source_arrays) THEN acc
    ELSE IF j > Len(source_arrays) THEN Correlations(source_arrays, i + 1, i + 2, acc)
    ELSE Correlations(source_arrays, i, j + 1,
            IF /\ Len(source_arrays[i].value) > 0
               /\ Len(source_arrays[j].value) > 0
               /\ ~CorrelationIsNan(source_arrays[i].value, source_arrays[j].value)
            THEN [sum   |-> AddFractions(acc.sum,
                                AbsCorrelation(source_arrays[i].value,
                                               source_arrays[j].value)),
                  count |-> acc.count + 1]
            ELSE acc)

\* reconstructed after the loop over the sources, from source i on.
RECURSIVE Reconstruct(_, _, _)
Reconstruct(reconstructed, sources, i) ==
    IF i > Len(sources) THEN reconstructed
    ELSE Reconstruct(IF Len(sources[i].value) > 0
                     THEN AddAudio(reconstructed, sources[i].value)
                     ELSE reconstructed,
                     sources, i + 1)

\* The metrics of the first block: reconstruction_error = mean(noise ** 2), and
\* sdr_db when the noise power is not zero.  sdr_db is 10 * log10 of the ratio
\* of the signal power to the noise power; the ratio is what is kept.
ReconstructionMetrics(orig, sources) ==
    IF sources = <<>> THEN <<>>
    ELSE LET reconstructed == Reconstruct([n \in 1..Len(orig) |-> 0], sources, 1)
             noise == [n \in 1..Len(orig) |-> orig[n] - reconstructed[n]]
             signal_power == Fraction(DotTo(orig, orig, Len(orig)), Len(orig))
             noise_power  == Fraction(DotTo(noise, noise, Len(orig)), Len(orig))
             with_sdr == IF noise_power.num > 0
                         THEN <<[key |-> "sdr_db",
                                 value |-> Fraction(signal_power.num, noise_power.num)]>>
                         ELSE <<>>
         IN  Append(with_sdr, [key |-> "reconstruction_error", value |-> noise_power])

\* The metrics of the second block: source_diversity, when there is more than
\* one source.
DiversityMetrics(sources) ==
    IF Len(sources) > 1
    THEN LET correlations ==
                Correlations(sources, 1, 2, [sum |-> Fraction(0, 1), count |-> 0])
         IN  <<[key |-> "source_diversity",
                value |-> IF correlations.count > 0
                          THEN Fraction(correlations.count * correlations.sum.den
                                            - correlations.sum.num,
                                        correlations.count * correlations.sum.den)
                          ELSE Fraction(0, 1)]>>
    ELSE <<>>

\* get_separation_quality_metrics(original, separated_sources)
GetSeparationQualityMetrics(orig, sources) ==
    ReconstructionMetrics(orig, sources) \o DiversityMetrics(sources)

\* The names of the sources of a metrics run.
MetricSourceNames == <<"kick", "snare", "hihat">>

\* The caller has the mixed audio and a waveform for each of up to MaxSources
\* sources.
InitQualityMetrics ==
    /\ JobsIdle
    /\ audio_pc = "idle"
    /\ onset_frames = NoFrames
    /\ unique_onsets = <<>>
    /\ onset_index = 0
    /\ classified = NoClassification
    /\ drum_events = <<>>
    /\ PostIdle /\ FeatIdle /\ LoopIdle
    /\ sep_pc = "metrics"
    /\ component_labels = <<>>
    /\ \E audios \in SeqsUpTo(MetricAudios, MaxSources) :
            separated_sources =
                [i \in 1..Len(audios) |->
                    [key |-> FixedName(MetricSourceNames[i]), value |-> audios[i]]]
    /\ separated_paths = <<>>
    /\ stem_paths = <<>>
    /\ original \in MetricAudios \ {<<>>}
    /\ metrics = <<>>

\* quality_metrics = await get_separation_quality_metrics(y_original, separated_audio)
QualityMetrics ==
    /\ sep_pc = "metrics"
    /\ metrics' = GetSeparationQualityMetrics(original, separated_sources)
    /\ sep_pc' = "metrics_returned"
    /\ UNCHANGED <<component_labels, separated_sources, separated_paths, stem_paths,
                   original, audio_pc, onset_frames, unique_onsets, onset_index,
                   classified, drum_events, postVars, featVars, loopVars, jobVars>>

SpecQualityMetrics == InitQualityMetrics /\ [][QualityMetrics]_vars

\* The sources given that are not silent.
NonSilentSources ==
    {i \in 1..Len(separated_sources) :
        /\ Len(separated_sources[i].value) > 0
        /\ Peak(separated_sources[i].value) >= silent_peak}

\* C24: the metrics report source_diversity == 0 whenever fewer than two
\* sources that are not silent are given, in particular when there is exactly
\* one (the caller asks for metrics when it has at least one source).
C24_DiversityZeroBelowTwoSources ==
    (/\ sep_pc = "metrics_returned"
     /\ separated_sources # <<>>
     /\ Cardinality(NonSilentSources) < 2)
        => /\ "source_diversity" \in DictKeys(metrics)
           /\ DictGet(metrics, "source_diversity").num = 0

====
